---- MODULE Spec2Model ----
(***************************************************************************)
(* A model of the linkgen text pipeline (leaf extractors, overlap          *)
(* resolution, entity resolver, title tokenizer).                          *)
(*                                                                         *)
(* Texts are sequences of one-character strings; every position is         *)
(* 0-based and every range is half-open, as in the Python source.          *)
(***************************************************************************)
EXTENDS Integers, Sequences, FiniteSets, TLC

VARIABLES
    text,        \* the text an operation is applied to
    extractor,   \* the configuration of the leaf/chained extractor last run
    spans,       \* the spans the extractor emitted, in emission order
    raised,      \* TRUE when the operation ended by raising an exception
    segments,    \* the segments handed to resolve_overlaps, in the caller's order
    overlap_call, \* the strategy and direct_only of the resolve_overlaps call made
    resolved,    \* the list resolve_overlaps returned
    entities,    \* the Entity objects of a document; an entity is named by its index
    entities_it, \* the candidate stream handed to resolve_entities, as indices
    entity_list, \* the list resolve_entities is working on, as indices
    attrs,       \* attrs[i]: the attrs list of entity i, as indices
    refers_to,   \* refers_to[i]: the entity that entity i refers to, or None
    stages_run,  \* the stages of resolve_entities that have finished, in order
    tokenizer,   \* the tokenizer last called
    token_span,  \* the TokenSpan it returned
    doc_table,   \* the documents of the doc_meta table
    query_entity, \* the entity search_best is called with
    query_metadata, \* the metadata of the document the entity is in
    search_stages, \* the steps of the search that have finished, in order
    inverted_index, \* the index built for the search
    matched_doc_ids, \* the running result of the multi-dimensional search
    doc_meta_list, \* the list _search returned
    best_result, \* the SearchBestResult returned
    allow_fuzzy_search, \* the allow_fuzzy_search argument of the staged search
    batch_entities, \* the entities batch_search_best is called with
    max_workers, \* its max_workers argument
    futures,     \* futures[i]: the state of the search submitted for entity i
    search_results, \* the search_results list of the call
    batch_state, \* where the call of batch_search_best is
    capacity,    \* the fields of the TokenBucketLimiter
    refill_rate,
    refill_interval,
    token_num,
    last_updated,
    current_time, \* what datetime.now() returns, in ticks
    acquire_log  \* the calls of acquire so far: when, what each returned and left

vars == <<text, extractor, spans, raised, segments, overlap_call, resolved,
          entities, entities_it, entity_list, attrs, refers_to, stages_run,
          tokenizer, token_span, doc_table, query_entity, query_metadata,
          search_stages, inverted_index, matched_doc_ids, doc_meta_list,
          best_result, batch_entities, max_workers, futures, search_results,
          allow_fuzzy_search, batch_state, capacity, refill_rate, refill_interval, token_num,
          last_updated, current_time, acquire_log>>

extractVars == <<extractor, spans>>
overlapVars == <<segments, overlap_call, resolved>>
resolverVars == <<entities, entities_it, entity_list, attrs, refers_to, stages_run>>
tokenizerVars == <<tokenizer, token_span>>
searchVars == <<allow_fuzzy_search, doc_table, query_entity, query_metadata, search_stages,
                inverted_index, matched_doc_ids, doc_meta_list, best_result>>
batchVars == <<batch_entities, max_workers, futures, search_results, batch_state>>
limiterVars == <<capacity, refill_rate, refill_interval, token_num, last_updated,
                 current_time, acquire_log>>

(***************************************************************************)
(* Python primitives the source relies on.                                 *)
(***************************************************************************)

\* text[i:j] with Python's rules: a negative index counts from the end,
\* indices are clamped to [0, len], an empty range gives "".
PyIndex(n, i) ==
    IF i < 0 THEN (IF i + n < 0 THEN 0 ELSE i + n)
    ELSE IF i > n THEN n ELSE i

PySlice(t, i, j) ==
    LET lo == PyIndex(Len(t), i)
        hi == PyIndex(Len(t), j)
    IN IF lo >= hi THEN <<>> ELSE SubSeq(t, lo + 1, hi)

\* Does literal p occur in t at 0-based position i?
StartsWithAt(t, p, i) ==
    /\ i >= 0
    /\ i + Len(p) <= Len(t)
    /\ SubSeq(t, i + 1, i + Len(p)) = p

\* The text of a group that did not take part in a match (Python's None).
NoneText == <<"None">>

Segment(t, s, e) == [text |-> t, start |-> s, end |-> e]

Max(a, b) == IF a >= b THEN a ELSE b

(***************************************************************************)
(* PairedSymbolExtractor (helper.py)                                       *)
(***************************************************************************)

\* self._symbol_pattern.finditer(text): the regex is left|right, so at each
\* position the left symbol is tried first; matches do not overlap.
RECURSIVE SymbolMatches(_, _, _, _)
SymbolMatches(t, left, right, i) ==
    IF i >= Len(t) THEN <<>>
    ELSE IF StartsWithAt(t, left, i)
         THEN <<[index |-> i, val |-> left]>>
              \o SymbolMatches(t, left, right, i + Len(left))
    ELSE IF StartsWithAt(t, right, i)
         THEN <<[index |-> i, val |-> right]>>
              \o SymbolMatches(t, left, right, i + Len(right))
    ELSE SymbolMatches(t, left, right, i + 1)

\* PairedSymbolExtractor._make_value
PairedMakeValue(cfg, t, start, end) ==
    IF cfg.include_symbols
    THEN Segment(PySlice(t, start, end), start, end)
    ELSE LET inner_start == start + Len(cfg.left)
             inner_end == end - Len(cfg.right)
         IN Segment(PySlice(t, inner_start, inner_end), inner_start, inner_end)

\* A right symbol is skipped when the stack is empty or its top is no left symbol.
StrayRight(cfg, stack) ==
    \/ stack = <<>>
    \/ stack[Len(stack)].val # cfg.left

Pop(stack) == SubSeq(stack, 1, Len(stack) - 1)

\* PairedSymbolExtractor._extract_all
RECURSIVE ExtractAllFrom(_, _, _, _, _)
ExtractAllFrom(cfg, t, ms, k, stack) ==
    IF k > Len(ms) THEN <<>>
    ELSE LET m == ms[k] IN
         IF m.val = cfg.left
         THEN ExtractAllFrom(cfg, t, ms, k + 1, Append(stack, m))
         ELSE IF StrayRight(cfg, stack)
         THEN ExtractAllFrom(cfg, t, ms, k + 1, stack)
         ELSE <<PairedMakeValue(cfg, t, stack[Len(stack)].index, m.index + 1)>>
              \o ExtractAllFrom(cfg, t, ms, k + 1, Pop(stack))

\* pending[depth].append(item); pending.pop(depth + 1, None)
PendingPut(pending, depth, item) ==
    [d \in (DOMAIN pending \cup {depth}) \ {depth + 1} |->
        IF d = depth
        THEN (IF depth \in DOMAIN pending THEN pending[depth] ELSE <<>>) \o <<item>>
        ELSE pending[d]]

MinOf(S) == CHOOSE x \in S : \A y \in S : x <= y
MaxOf(S) == CHOOSE x \in S : \A y \in S : x >= y

\* The tail of _extract_outermost: the fallback on an unclosed outer opener.
OutermostFallback(cfg, pending, depth) ==
    IF DOMAIN pending # {} /\ cfg.allow_fallback_on_unclosed /\ depth > 0
    THEN pending[MinOf(DOMAIN pending)]
    ELSE <<>>

\* PairedSymbolExtractor._extract_outermost
RECURSIVE ExtractOutermostFrom(_, _, _, _, _, _, _)
ExtractOutermostFrom(cfg, t, ms, k, depth, stack, pending) ==
    IF k > Len(ms) THEN OutermostFallback(cfg, pending, depth)
    ELSE LET m == ms[k] IN
         IF m.val = cfg.left
         THEN ExtractOutermostFrom(cfg, t, ms, k + 1, depth + 1, Append(stack, m), pending)
         ELSE IF StrayRight(cfg, stack)
         THEN ExtractOutermostFrom(cfg, t, ms, k + 1, depth, stack, pending)
         ELSE LET item == PairedMakeValue(cfg, t, stack[Len(stack)].index, m.index + 1)
                  rest == Pop(stack)
              IN IF rest = <<>>
                 THEN <<item>>
                      \o ExtractOutermostFrom(cfg, t, ms, k + 1, depth - 1, rest, pending)
                 ELSE ExtractOutermostFrom(cfg, t, ms, k + 1, depth - 1, rest,
                                           PendingPut(pending, depth, item))

\* _extract_innermost yielding every pair it closes, whatever its depth
RECURSIVE ExtractInnermostEveryPairFrom(_, _, _, _, _, _, _)
ExtractInnermostEveryPairFrom(cfg, t, ms, k, depth, max_depth_seen, stack) ==
    IF k > Len(ms) THEN <<>>
    ELSE LET m == ms[k] IN
         IF m.val = cfg.left
         THEN ExtractInnermostEveryPairFrom(cfg, t, ms, k + 1, depth + 1,
                                            Max(depth + 1, max_depth_seen),
                                            Append(stack, m))
         ELSE IF StrayRight(cfg, stack)
         THEN ExtractInnermostEveryPairFrom(cfg, t, ms, k + 1, depth,
                                            max_depth_seen, stack)
         ELSE <<PairedMakeValue(cfg, t, stack[Len(stack)].index, m.index + 1)>>
              \o ExtractInnermostEveryPairFrom(cfg, t, ms, k + 1, depth - 1,
                                                max_depth_seen, Pop(stack))

\* PairedSymbolExtractor._extract_innermost
RECURSIVE ExtractInnermostFrom(_, _, _, _, _, _, _)
ExtractInnermostFrom(cfg, t, ms, k, depth, max_depth_seen, stack) ==
    IF k > Len(ms) THEN <<>>
    ELSE LET m == ms[k] IN
         IF m.val = cfg.left
         THEN ExtractInnermostFrom(cfg, t, ms, k + 1, depth + 1,
                                   Max(depth + 1, max_depth_seen), Append(stack, m))
         ELSE IF StrayRight(cfg, stack)
         THEN ExtractInnermostFrom(cfg, t, ms, k + 1, depth, max_depth_seen, stack)
         ELSE LET item == PairedMakeValue(cfg, t, stack[Len(stack)].index, m.index + 1)
                  emitted == IF depth = max_depth_seen THEN <<item>> ELSE <<>>
                  seen == IF depth - 1 = 0 THEN 0 ELSE max_depth_seen
              IN emitted
                 \o ExtractInnermostFrom(cfg, t, ms, k + 1, depth - 1, seen, Pop(stack))

EmptyPending == [d \in {} |-> <<>>]

\* PairedSymbolExtractor.extract with _get_strategy_handler's choice
PairedExtract(cfg, t) ==
    LET ms == SymbolMatches(t, cfg.left, cfg.right, 0) IN
    IF cfg.strategy = "innermost" THEN ExtractInnermostFrom(cfg, t, ms, 1, 0, 0, <<>>)
    ELSE IF cfg.strategy = "outermost"
         THEN ExtractOutermostFrom(cfg, t, ms, 1, 0, <<>>, EmptyPending)
    ELSE ExtractAllFrom(cfg, t, ms, 1, <<>>)

(***************************************************************************)
(* KeywordExtractor (helper.py).  The automaton is pyahocorasick's; iter   *)
(* and iter_long are modelled by their documented results.                 *)
(***************************************************************************)

\* len(max(self._automaton.keys(), key=len))
MaxKeywordLength(keywords) ==
    CHOOSE n \in {Len(w) : w \in keywords} : \A w \in keywords : Len(w) <= n

RECURSIVE Spaces(_)
Spaces(n) == IF n <= 0 THEN <<>> ELSE <<" ">> \o Spaces(n - 1)

\* KeywordExtractor._pad_text
PadText(cfg, t) ==
    IF cfg.ignore_overlaps /\ MaxKeywordLength(cfg.keywords) - Len(t) > 0
    THEN t \o Spaces(MaxKeywordLength(cfg.keywords) - Len(t))
    ELSE t

\* The keywords ending at 0-based index e, longest first.
RECURSIVE WordsEndingAt(_, _, _, _)
WordsEndingAt(keywords, t, e, n) ==
    IF n = 0 THEN <<>>
    ELSE (IF e + 1 - n >= 0 /\ SubSeq(t, e + 2 - n, e + 1) \in keywords
          THEN <<[end_index |-> e, word |-> SubSeq(t, e + 2 - n, e + 1)]>>
          ELSE <<>>)
         \o WordsEndingAt(keywords, t, e, n - 1)

\* Automaton.iter: every occurrence, by end index.
RECURSIVE AutomatonIter(_, _, _)
AutomatonIter(keywords, t, e) ==
    IF e >= Len(t) THEN <<>>
    ELSE WordsEndingAt(keywords, t, e, MaxKeywordLength(keywords))
         \o AutomatonIter(keywords, t, e + 1)

\* The length of the longest keyword starting at i (0 when there is none).
RECURSIVE LongestAt(_, _, _, _)
LongestAt(keywords, t, i, n) ==
    IF n = 0 THEN 0
    ELSE IF i + n <= Len(t) /\ SubSeq(t, i + 1, i + n) \in keywords THEN n
    ELSE LongestAt(keywords, t, i, n - 1)

\* Automaton.iter_long: leftmost longest matches, none overlapping.
RECURSIVE AutomatonIterLong(_, _, _)
AutomatonIterLong(keywords, t, i) ==
    IF i >= Len(t) THEN <<>>
    ELSE LET n == LongestAt(keywords, t, i, MaxKeywordLength(keywords)) IN
         IF n > 0
         THEN <<[end_index |-> i + n - 1, word |-> SubSeq(t, i + 1, i + n)]>>
              \o AutomatonIterLong(keywords, t, i + n)
         ELSE AutomatonIterLong(keywords, t, i + 1)

\* The loop of KeywordExtractor.extract: it stops at the first match that
\* reaches into the padding.
RECURSIVE KeywordYield(_, _, _)
KeywordYield(ms, k, n) ==
    IF k > Len(ms) THEN <<>>
    ELSE LET start == ms[k].end_index - Len(ms[k].word) + 1
             end == ms[k].end_index + 1
         IN IF end > n THEN <<>>
            ELSE <<Segment(ms[k].word, start, end)>> \o KeywordYield(ms, k + 1, n)

\* extract with Automaton.iter used whatever ignore_overlaps says
KeywordExtractEveryOccurrence(cfg, t) ==
    KeywordYield(AutomatonIter(cfg.keywords, PadText(cfg, t), 0), 1, Len(t))

\* KeywordExtractor.extract
KeywordExtract(cfg, t) ==
    LET padded_text == PadText(cfg, t)
        iterator == IF cfg.ignore_overlaps
                    THEN AutomatonIterLong(cfg.keywords, padded_text, 0)
                    ELSE AutomatonIter(cfg.keywords, padded_text, 0)
    IN KeywordYield(iterator, 1, Len(t))

(***************************************************************************)
(* DynamicKeywordEntityExtractor (extractor.py).  The keyword lookup maps  *)
(* a keyword to the name of its entity type or, for a dynamic              *)
(* abbreviation, to the Entity that defines it.                            *)
(***************************************************************************)

NoDefinition == [text |-> <<>>, start |-> -1, end |-> -1]

\* _default_keyword_lookup: the keywords of KeywordMapping.json, one here
DefaultKeywordLookup == [w \in {<<"d">>} |-> "PROMULGATOR"]

\* {e.text: e for e in dynamic_abbr_defs}: of the definitions of one text
\* the last is kept
LastDefinitionOf(dynamic_abbr_defs, w) ==
    dynamic_abbr_defs[MaxOf({j \in 1..Len(dynamic_abbr_defs) : dynamic_abbr_defs[j].text = w})]

\* _rebuild_lookup_and_extractor: the dynamic entries replace the default ones
KeywordLookup(dynamic_abbr_defs) ==
    [w \in DOMAIN DefaultKeywordLookup \cup {dynamic_abbr_defs[j].text : j \in 1..Len(dynamic_abbr_defs)} |->
        IF \E j \in 1..Len(dynamic_abbr_defs) : dynamic_abbr_defs[j].text = w
        THEN [is_entity |-> TRUE, entity_type |-> "LAW_DYNAMIC_ABBR",
              abbr_def |-> LastDefinitionOf(dynamic_abbr_defs, w)]
        ELSE [is_entity |-> FALSE, entity_type |-> DefaultKeywordLookup[w],
              abbr_def |-> NoDefinition]]

\* The loop of DynamicKeywordEntityExtractor.extract over the segments found
RECURSIVE DynamicKeywordYield(_, _, _)
DynamicKeywordYield(keyword_lookup, found_segments, k) ==
    IF k > Len(found_segments) THEN <<>>
    ELSE LET segment == found_segments[k]
             value == keyword_lookup[segment.text]
         IN (IF value.is_entity /\ segment.start < value.abbr_def.start THEN <<>>
             ELSE <<[text |-> segment.text, start |-> segment.start, end |-> segment.end,
                     entity_type |-> value.entity_type, refers_to |-> value.abbr_def]>>)
            \o DynamicKeywordYield(keyword_lookup, found_segments, k + 1)

\* DynamicKeywordEntityExtractor(dynamic_abbr_defs).extract(text)
DynamicKeywordExtract(dynamic_abbr_defs, t) ==
    LET keyword_lookup == KeywordLookup(dynamic_abbr_defs)
        found_segments == KeywordExtract([kind |-> "keyword", keywords |-> DOMAIN keyword_lookup,
                                          ignore_overlaps |-> TRUE], t)
    IN DynamicKeywordYield(keyword_lookup, found_segments, 1)

(***************************************************************************)
(* PatternExtractor (helper.py).  A pattern pre(grp)?post or pre(grp)post  *)
(* stands for a compiled regex with one capture group.                     *)
(***************************************************************************)

\* pattern.finditer(text): leftmost matches, the optional group taken
\* greedily; a group that took no part has text None and span (-1, -1).
RECURSIVE FindIter(_, _, _)
FindIter(pat, t, i) ==
    IF i >= Len(t) THEN <<>>
    ELSE LET full == pat.pre \o pat.grp \o pat.post
             short == pat.pre \o pat.post
         IN IF StartsWithAt(t, full, i)
            THEN <<[start |-> i, end |-> i + Len(full),
                    gstart |-> i + Len(pat.pre),
                    gend |-> i + Len(pat.pre) + Len(pat.grp),
                    gtext |-> pat.grp]>>
                 \o FindIter(pat, t, i + Len(full))
            ELSE IF pat.optional /\ StartsWithAt(t, short, i)
            THEN <<[start |-> i, end |-> i + Len(short),
                    gstart |-> -1, gend |-> -1, gtext |-> NoneText]>>
                 \o FindIter(pat, t, i + Len(short))
            ELSE FindIter(pat, t, i + 1)

\* matcher.group(g), matcher.start(g), matcher.end(g)
MatchSegment(t, m, group) ==
    IF group = 0
    THEN Segment(SubSeq(t, m.start + 1, m.end), m.start, m.end)
    ELSE Segment(m.gtext, m.gstart, m.gend)

\* PatternExtractor.extract
RECURSIVE PatternExtractFrom(_, _, _, _)
PatternExtractFrom(cfg, t, k, found_any) ==
    IF k > Len(cfg.patterns) THEN <<>>
    ELSE LET ms == FindIter(cfg.patterns[k], t, 0)
             found == found_any \/ ms # <<>>
         IN [j \in 1..Len(ms) |-> MatchSegment(t, ms[j], cfg.group)]
            \o (IF cfg.stop_on_first /\ found THEN <<>>
                ELSE PatternExtractFrom(cfg, t, k + 1, found))

PatternExtract(cfg, t) == PatternExtractFrom(cfg, t, 1, FALSE)

\* Extractor.extract of a leaf extractor, by its class.
LeafExtract(cfg, t) ==
    IF cfg.kind = "paired" THEN PairedExtract(cfg, t)
    ELSE IF cfg.kind = "keyword" THEN KeywordExtract(cfg, t)
    ELSE PatternExtract(cfg, t)

(***************************************************************************)
(* ChainedExtractor (helper.py)                                            *)
(***************************************************************************)

\* extracted_segment.start += offset; extracted_segment.end += offset
Shift(seg, offset) ==
    [seg EXCEPT !.start = @ + offset, !.end = @ + offset]

\* One segment through the extractors of one level (the two inner loops of
\* _process_level_lazy), positions moved by the segment's start.
RECURSIVE LevelChildren(_, _, _)
LevelChildren(extractors, seg, k) ==
    IF k > Len(extractors) THEN <<>>
    ELSE LET found == LeafExtract(extractors[k], seg.text)
         IN [j \in 1..Len(found) |-> Shift(found[j], seg.start)]
            \o LevelChildren(extractors, seg, k + 1)

\* The generators of the levels are chained lazily: each segment of a level
\* goes through all later levels before the next segment is produced.
\* extract(None) raises, which ends the iteration.
RECURSIVE ChainSegment(_, _, _)
RECURSIVE ChainSegments(_, _, _, _)
ChainSegment(levels, k, seg) ==
    IF k > Len(levels) THEN [out |-> <<seg>>, raised |-> FALSE]
    ELSE IF seg.text = NoneText THEN [out |-> <<>>, raised |-> TRUE]
    ELSE ChainSegments(levels, k + 1, LevelChildren(levels[k], seg, 1), 1)

ChainSegments(levels, k, segs, i) ==
    IF i > Len(segs) THEN [out |-> <<>>, raised |-> FALSE]
    ELSE LET first == ChainSegment(levels, k, segs[i]) IN
         IF first.raised THEN first
         ELSE LET rest == ChainSegments(levels, k, segs, i + 1)
              IN [out |-> first.out \o rest.out, raised |-> rest.raised]

\* ChainedExtractor.extract
ChainedExtract(cfg, t) ==
    ChainSegment(cfg.levels, 1, Segment(t, 0, Len(t)))

(***************************************************************************)
(* resolve_overlaps (helper.py)                                            *)
(***************************************************************************)

\* The sort keys of resolve_overlaps: start, or (start, -end).
KeyLess(a, b, strategy) ==
    \/ a.start < b.start
    \/ /\ strategy = "earliest_longest"
       /\ a.start = b.start
       /\ -a.end < -b.end

\* sorted(iterable, key=...): Python's sort is stable.
RECURSIVE InsertByKey(_, _, _)
InsertByKey(sorted, x, strategy) ==
    IF sorted = <<>> THEN <<x>>
    ELSE IF KeyLess(x, Head(sorted), strategy) THEN <<x>> \o sorted
    ELSE <<Head(sorted)>> \o InsertByKey(Tail(sorted), x, strategy)

RECURSIVE SortedByKey(_, _)
SortedByKey(segs, strategy) ==
    IF segs = <<>> THEN <<>>
    ELSE InsertByKey(SortedByKey(SubSeq(segs, 1, Len(segs) - 1), strategy),
                     segs[Len(segs)], strategy)

\* The loop of _resolve_overlaps_keep_longest, from segments[index] on.
RECURSIVE KeepLongestFrom(_, _, _, _, _)
KeepLongestFrom(segs, index, longest, group_end, direct_only) ==
    IF index > Len(segs) THEN <<longest>>
    ELSE LET seg == segs[index] IN
         IF seg.start < group_end
         THEN LET kept == IF (seg.end - seg.start) > (longest.end - longest.start)
                          THEN seg ELSE longest
                  new_end == IF direct_only THEN kept.end ELSE Max(group_end, seg.end)
              IN KeepLongestFrom(segs, index + 1, kept, new_end, direct_only)
         ELSE <<longest>> \o KeepLongestFrom(segs, index + 1, seg, seg.end, direct_only)

\* The loop of _resolve_overlaps_keep_longest with the group ending where
\* the span last seen ends, not at the furthest end seen
RECURSIVE KeepLongestLastEndFrom(_, _, _, _, _)
KeepLongestLastEndFrom(segs, index, longest, group_end, direct_only) ==
    IF index > Len(segs) THEN <<longest>>
    ELSE LET seg == segs[index] IN
         IF seg.start < group_end
         THEN LET kept == IF (seg.end - seg.start) > (longest.end - longest.start)
                          THEN seg ELSE longest
                  new_end == IF direct_only THEN kept.end ELSE seg.end
              IN KeepLongestLastEndFrom(segs, index + 1, kept, new_end, direct_only)
         ELSE <<longest>>
              \o KeepLongestLastEndFrom(segs, index + 1, seg, seg.end, direct_only)

ResolveOverlapsKeepLongestLastEnd(segs, direct_only) ==
    KeepLongestLastEndFrom(segs, 2, segs[1], segs[1].end, direct_only)

\* _resolve_overlaps_keep_longest
ResolveOverlapsKeepLongest(segs, direct_only) ==
    KeepLongestFrom(segs, 2, segs[1], segs[1].end, direct_only)

\* The loop of _resolve_overlaps_keep_earliest, from segments[index] on.
RECURSIVE KeepEarliestFrom(_, _, _, _)
KeepEarliestFrom(segs, index, prev_end, direct_only) ==
    IF index > Len(segs) THEN <<>>
    ELSE LET segment == segs[index]
             taken == segment.start >= prev_end
             end1 == IF taken THEN segment.end ELSE prev_end
             end2 == IF direct_only THEN end1 ELSE Max(end1, segment.end)
         IN (IF taken THEN <<segment>> ELSE <<>>)
            \o KeepEarliestFrom(segs, index + 1, end2, direct_only)

\* _resolve_overlaps_keep_earliest
ResolveOverlapsKeepEarliest(segs, direct_only) ==
    KeepEarliestFrom(segs, 1, -1, direct_only)

\* resolve_overlaps
ResolveOverlaps(iterable, strategy, direct_only) ==
    LET sorted == SortedByKey(iterable, strategy) IN
    IF sorted = <<>> THEN <<>>
    ELSE IF strategy = "longest" THEN ResolveOverlapsKeepLongest(sorted, direct_only)
    ELSE ResolveOverlapsKeepEarliest(sorted, direct_only)

\* Token.overlaps_with (models.py)
OverlapsWith(a, b) == a.start < b.end /\ a.end > b.start

(***************************************************************************)
(* resolver.py: validation, association and pruning of entities.           *)
(*                                                                         *)
(* An Entity object is named by its index in `entities`; None is 0.  Its   *)
(* attrs and refers_to fields, which association mutates, are kept in the  *)
(* maps attrs and refers_to.                                               *)
(***************************************************************************)

None == 0

\* str.find(sub, start, end): the lowest index of sub within text[start:end], or -1
Find(t, sub, start, end) ==
    LET lo == PyIndex(Len(t), start)
        hi == PyIndex(Len(t), end)
        hits == {i \in lo..(hi - Len(sub)) : StartsWithAt(t, sub, i)}
    IN IF hits = {} THEN -1 ELSE MinOf(hits)

\* str.rfind(sub, start, end): the highest such index, or -1
RFind(t, sub, start, end) ==
    LET lo == PyIndex(Len(t), start)
        hi == PyIndex(Len(t), end)
        hits == {i \in lo..(hi - Len(sub)) : StartsWithAt(t, sub, i)}
    IN IF hits = {} THEN -1 ELSE MaxOf(hits)

\* The non-ASCII members are written by code point.
SENTENCE_ENDING == {"?", "!", ".", "U+3002", "U+FF1F", "U+FF01"}
LEFT_BRACKETS == {"(", "U+FF08"}

\* html.unescape, for the references &lt; &gt; &amp;
RECURSIVE HtmlUnescape(_)
HtmlUnescape(t) ==
    IF t = <<>> THEN <<>>
    ELSE IF StartsWithAt(t, <<"&", "l", "t", ";">>, 0)
        THEN <<"<">> \o HtmlUnescape(SubSeq(t, 5, Len(t)))
    ELSE IF StartsWithAt(t, <<"&", "g", "t", ";">>, 0)
        THEN <<">">> \o HtmlUnescape(SubSeq(t, 5, Len(t)))
    ELSE IF StartsWithAt(t, <<"&", "a", "m", "p", ";">>, 0)
        THEN <<"&">> \o HtmlUnescape(SubSeq(t, 6, Len(t)))
    ELSE <<Head(t)>> \o HtmlUnescape(Tail(t))

\* the default of max_unescape_times
MaxUnescapeTimes == 3

RECURSIVE UnescapeTimes(_, _)
UnescapeTimes(t, n) ==
    IF n = 0 THEN t
    ELSE LET new_text == HtmlUnescape(t) IN
         IF new_text = t THEN t ELSE UnescapeTimes(new_text, n - 1)

UnescapeHtmlEntities(t) == UnescapeTimes(t, MaxUnescapeTimes)

\* ET.fromstring("<root>" + t + "</root>") parses.  The texts modelled hold
\* no "/", so a "<" can open no element that is ever closed: t parses
\* exactly when it is character data, with no "<" and no "&".
ParsesInsideRoot(t) == \A i \in 1..Len(t) : t[i] \notin {"<", "&"}

IsValidXmlFragment(document, segment) ==
    LET t == UnescapeHtmlEntities(segment.text)
        last_open == RFind(document, <<"<">>, 0, segment.start)
        last_close == RFind(document, <<">">>, 0, segment.start)
    IN IF last_open # -1 /\ last_close < last_open THEN FALSE
       ELSE ParsesInsideRoot(t)

IsUnmarkedHyperlink(document, segment) ==
    LET last_open == RFind(document, <<"<", "a">>, 0, segment.start)
        last_close == RFind(document, <<"<", "/", "a", ">">>, 0, segment.start)
    IN IF last_open = -1 THEN TRUE
       ELSE last_close # -1 /\ last_close > last_open

\* resolve_overlaps(entities_it, strategy="longest", direct_only=True), on
\* entities named by index
ResolveEntityOverlaps(ents, ids) ==
    LET segs == [j \in 1..Len(ids) |->
                    [id |-> ids[j], start |-> ents[ids[j]].start, end |-> ents[ids[j]].end]]
        kept == ResolveOverlaps(segs, "longest", TRUE)
    IN [j \in 1..Len(kept) |-> kept[j].id]

\* The stages in the order the claimed pipeline has them: the candidates
\* that win overlap resolution, filtered by the structural checks.
ValidateEntitiesAfterOverlaps(document, ents, ids) ==
    SelectSeq(ResolveEntityOverlaps(ents, ids),
              LAMBDA i : /\ IsUnmarkedHyperlink(document, ents[i])
                        /\ IsValidXmlFragment(document, ents[i]))

\* _validate_entities, consumed to the end: the candidates passing both checks
ValidateEntities(document, ents, ids) ==
    SelectSeq(ids, LAMBDA i : /\ IsUnmarkedHyperlink(document, ents[i])
                              /\ IsValidXmlFragment(document, ents[i]))

\* The gate with the search begun one character late
WithoutSentenceEndingAfterFirst(t, start, end) ==
    \A x \in SENTENCE_ENDING : Find(t, <<x>>, start + 1, end) = -1

WithoutSentenceEnding(t, start, end) ==
    \A x \in SENTENCE_ENDING : Find(t, <<x>>, start, end) = -1

\* text_util.is_whitespace
IsWhitespace(c) == c = " "

RECURSIVE SkipLeadingWhitespace(_, _, _)
SkipLeadingWhitespace(t, start, end) ==
    IF start < end /\ IsWhitespace(t[start + 1])
    THEN SkipLeadingWhitespace(t, start + 1, end)
    ELSE start

\* start is below len(text) at every call: the ranges end where an entity
\* of positive length starts.
SkipLeadingElementTag(t, start, end) ==
    IF t[start + 1] = "<"
    THEN LET nearest_close == Find(t, <<">">>, start, end) IN
         IF nearest_close > start THEN nearest_close + 1 ELSE start
    ELSE start

RECURSIVE SkipWhitespaceAndTags(_, _, _)
SkipWhitespaceAndTags(t, idx, end) ==
    IF idx < end
    THEN LET next_idx == SkipLeadingElementTag(t, SkipLeadingWhitespace(t, idx, end), end) IN
         IF next_idx = idx THEN idx ELSE SkipWhitespaceAndTags(t, next_idx, end)
    ELSE idx

StartswithSingleLeftBracket(t, start, end) ==
    LET idx == SkipWhitespaceAndTags(t, start, end) IN
    IF idx >= end \/ t[idx + 1] \notin LEFT_BRACKETS THEN FALSE
    ELSE ~ \E x \in LEFT_BRACKETS : Find(t, <<x>>, idx + 1, end) # -1

\* LookupDict({x.end: x for x in ids}): a later entity replaces an earlier
\* one with the same key
EndIndexLookup(ents, ids) ==
    [k \in {ents[ids[j]].end : j \in 1..Len(ids)} |->
        ids[MaxOf({j \in 1..Len(ids) : ents[ids[j]].end = k})]]

\* LookupDict({x.start: x for x in ids})
StartIndexLookup(ents, ids) ==
    [k \in {ents[ids[j]].start : j \in 1..Len(ids)} |->
        ids[MaxOf({j \in 1..Len(ids) : ents[ids[j]].start = k})]]

\* LookupDict.floor: the value of the greatest key <= key, or None
Floor(lookup, key) ==
    LET below == {k \in DOMAIN lookup : k <= key} IN
    IF below = {} THEN None ELSE lookup[MaxOf(below)]

\* LookupDict.ceiling: the value of the smallest key >= key, or None
Ceiling(lookup, key) ==
    LET above == {k \in DOMAIN lookup : k >= key} IN
    IF above = {} THEN None ELSE lookup[MinOf(above)]

\* _associate_ref_definitions: the refers_to map after the loop
AssociateRefDefinitions(t, ents, group, references, refs) ==
    LET end_index_lookup == EndIndexLookup(ents, references)
        InGroup(i) == \E j \in 1..Len(group) : group[j] = i
        RefOf(i) == Floor(end_index_lookup, ents[i].start - 1)
    IN [i \in DOMAIN refs |->
          IF /\ InGroup(i)
             /\ RefOf(i) # None
             /\ WithoutSentenceEnding(t, ents[RefOf(i)].end, ents[i].start)
          THEN RefOf(i)
          ELSE refs[i]]

\* _associate_ref_defs_for_dynamic_abbr with the lookup and the gates taken
\* at the reference itself instead of at its definition
RECURSIVE AssociateRefDefsAtReferenceFrom(_, _, _, _, _, _)
AssociateRefDefsAtReferenceFrom(t, ents, group, references, k, st) ==
    IF k > Len(group) THEN st
    ELSE LET abbr_ref == group[k]
             abbr_def == st.refers_to[abbr_ref]
             ref == Floor(EndIndexLookup(ents, references), ents[abbr_ref].start - 1)
         IN IF abbr_def = None THEN [st EXCEPT !.raised = TRUE]
            ELSE AssociateRefDefsAtReferenceFrom(t, ents, group, references, k + 1,
                    [st EXCEPT !.refers_to[abbr_ref] =
                        IF /\ ref # None
                           /\ WithoutSentenceEnding(t, ents[ref].end, ents[abbr_ref].start)
                           /\ StartswithSingleLeftBracket(t, ents[ref].end, ents[abbr_ref].start)
                        THEN ref
                        ELSE None])

AssociateRefDefsAtReference(t, ents, group, references, st) ==
    AssociateRefDefsAtReferenceFrom(t, ents, group, references, 1, st)

\* _associate_ref_defs_for_dynamic_abbr from the k-th entity of the group
\* on; st holds the refers_to map and whether ValueError was raised
RECURSIVE AssociateRefDefsForDynamicAbbrFrom(_, _, _, _, _, _)
AssociateRefDefsForDynamicAbbrFrom(t, ents, group, references, k, st) ==
    IF k > Len(group) THEN st
    ELSE LET abbr_ref == group[k]
             abbr_def == st.refers_to[abbr_ref]
             ref == Floor(EndIndexLookup(ents, references), ents[abbr_def].start - 1)
         IN IF abbr_def = None THEN [st EXCEPT !.raised = TRUE]
            ELSE AssociateRefDefsForDynamicAbbrFrom(t, ents, group, references, k + 1,
                    [st EXCEPT !.refers_to[abbr_ref] =
                        IF /\ ref # None
                           /\ WithoutSentenceEnding(t, ents[ref].end, ents[abbr_def].start)
                           /\ StartswithSingleLeftBracket(t, ents[ref].end, ents[abbr_def].start)
                        THEN ref
                        ELSE None])

AssociateRefDefsForDynamicAbbr(t, ents, group, references, st) ==
    AssociateRefDefsForDynamicAbbrFrom(t, ents, group, references, 1, st)

ForwardLookupTypes == {"ISSUE_NO", "DATE"}

\* _associate_attributes without the `continue` after a forward match: the
\* backward lookup is tried for every attribute
RECURSIVE AssociateAttributesBothWaysFrom(_, _, _, _, _, _)
AssociateAttributesBothWaysFrom(t, ents, group, attr_ids, k, at) ==
    IF k > Len(attr_ids) THEN at
    ELSE LET attr == attr_ids[k]
             forward == IF ents[attr].entity_type \in {"ISSUE_NO", "DATE"}
                        THEN Floor(EndIndexLookup(ents, group), ents[attr].start - 1)
                        ELSE None
             forward_ok ==
                 /\ forward # None
                 /\ WithoutSentenceEnding(t, ents[forward].end, ents[attr].start)
                 /\ StartswithSingleLeftBracket(t, ents[forward].end, ents[attr].start)
             backward == Ceiling(StartIndexLookup(ents, group), ents[attr].end)
             backward_ok ==
                 /\ backward # None
                 /\ WithoutSentenceEnding(t, ents[attr].end, ents[backward].start)
             at_forward == IF forward_ok THEN [at EXCEPT ![forward] = Append(@, attr)] ELSE at
         IN AssociateAttributesBothWaysFrom(t, ents, group, attr_ids, k + 1,
                IF backward_ok THEN [at_forward EXCEPT ![backward] = Append(@, attr)]
                ELSE at_forward)

AssociateAttributesBothWays(t, ents, group, attr_ids, at) ==
    AssociateAttributesBothWaysFrom(t, ents, group, attr_ids, 1, at)

\* _associate_attributes from the k-th attribute on; at is the attrs map
RECURSIVE AssociateAttributesFrom(_, _, _, _, _, _)
AssociateAttributesFrom(t, ents, group, attr_ids, k, at) ==
    IF k > Len(attr_ids) THEN at
    ELSE LET attr == attr_ids[k]
             forward == IF ents[attr].entity_type \in ForwardLookupTypes
                        THEN Floor(EndIndexLookup(ents, group), ents[attr].start - 1)
                        ELSE None
             forward_ok ==
                 /\ forward # None
                 /\ WithoutSentenceEnding(t, ents[forward].end, ents[attr].start)
                 /\ StartswithSingleLeftBracket(t, ents[forward].end, ents[attr].start)
             backward == Ceiling(StartIndexLookup(ents, group), ents[attr].end)
             backward_ok ==
                 /\ backward # None
                 /\ WithoutSentenceEnding(t, ents[attr].end, ents[backward].start)
         IN AssociateAttributesFrom(t, ents, group, attr_ids, k + 1,
                IF forward_ok THEN [at EXCEPT ![forward] = Append(@, attr)]
                ELSE IF backward_ok THEN [at EXCEPT ![backward] = Append(@, attr)]
                ELSE at)

AssociateAttributes(t, ents, group, attr_ids, at) ==
    AssociateAttributesFrom(t, ents, group, attr_ids, 1, at)

\* EntityType.depends_on (models.py)
DependsOn(entity_type) ==
    CASE entity_type \in {"THIS_LAW", "LAW_SELF", "LAW_DYNAMIC_ABBR"} -> <<"LAW_TITLE">>
      [] entity_type = "LAW_TITLE" -> <<"DATE", "ISSUE_NO", "PROMULGATOR">>
      [] entity_type = "LAW_ARTICLE" ->
            <<"LAW_TITLE", "LAW_DYNAMIC_ABBR", "LAW_ABBR", "THIS_LAW", "LAW_SELF">>
      [] OTHER -> <<>>

\* coll_util.group_by: the keys in the order they first appear ...
RECURSIVE TypeOrderFrom(_, _, _, _)
TypeOrderFrom(ents, list, k, seen) ==
    IF k > Len(list) THEN seen
    ELSE TypeOrderFrom(ents, list, k + 1,
            IF \E j \in 1..Len(seen) : seen[j] = ents[list[k]].entity_type
            THEN seen
            ELSE Append(seen, ents[list[k]].entity_type))

\* ... and the group of one key
GroupOf(ents, list, entity_type) ==
    SelectSeq(list, LAMBDA i : ents[i].entity_type = entity_type)

\* chain.from_iterable(entities_by_type.get(x, []) for x in types[k:])
RECURSIVE ChainGroups(_, _, _, _)
ChainGroups(ents, list, types, k) ==
    IF k > Len(types) THEN <<>>
    ELSE GroupOf(ents, list, types[k]) \o ChainGroups(ents, list, types, k + 1)

\* The keys of the associators table of _associate_entities
AssociatorTypes == {"LAW_TITLE", "LAW_SELF", "THIS_LAW", "LAW_ARTICLE", "LAW_DYNAMIC_ABBR"}

\* The entity types whose associator _associate_entities calls, in the
\* order of the calls: the keys of entities_by_type that depend on some
\* type and have an associator
AssociatorCalls(ents, list) ==
    SelectSeq(TypeOrderFrom(ents, list, 1, <<>>),
              LAMBDA entity_type : DependsOn(entity_type) # <<>> /\ entity_type \in AssociatorTypes)

\* The loop of _associate_entities from the k-th entity type on; st holds
\* the attrs map, the refers_to map and whether an associator raised.
RECURSIVE AssociateEntitiesFrom(_, _, _, _, _, _)
AssociateEntitiesFrom(t, ents, list, types, k, st) ==
    IF k > Len(types) \/ st.raised THEN st
    ELSE LET entity_type == types[k]
             group == GroupOf(ents, list, entity_type)
             depends_on == ChainGroups(ents, list, DependsOn(entity_type), 1)
             after ==
                 CASE entity_type = "LAW_TITLE" ->
                        [st EXCEPT !.attrs = AssociateAttributes(t, ents, group, depends_on, @)]
                   [] entity_type \in {"LAW_SELF", "THIS_LAW", "LAW_ARTICLE"} ->
                        [st EXCEPT !.refers_to =
                            AssociateRefDefinitions(t, ents, group, depends_on, @)]
                   [] entity_type = "LAW_DYNAMIC_ABBR" ->
                        AssociateRefDefsForDynamicAbbr(t, ents, group, depends_on, st)
                   [] OTHER -> st
         IN AssociateEntitiesFrom(t, ents, list, types, k + 1, after)

\* _associate_entities
AssociateEntities(t, ents, list, st) ==
    AssociateEntitiesFrom(t, ents, list, TypeOrderFrom(ents, list, 1, <<>>), 1, st)

RemainingTypes == {"CASE_NO", "LAW_ABBR", "LAW_SELF", "LAW_TITLE"}

\* Pruning with the independent types its docstring names, LAW_SELF left out
RemoveOrphanEntitiesPerDocstring(ents, list, refs) ==
    SelectSeq(list, LAMBDA i : \/ refs[i] # None
                              \/ ents[i].entity_type \in {"LAW_TITLE", "CASE_NO", "LAW_ABBR"})

\* _remove_orphan_entities
RemoveOrphanEntities(ents, list, refs) ==
    SelectSeq(list, LAMBDA i : refs[i] # None \/ ents[i].entity_type \in RemainingTypes)

(***************************************************************************)
(* tokenizer.py: LawTitleTokenizer, NestedLawTitleTokenizer, NoOpTokenizer.*)
(*                                                                         *)
(* A tokenizer configuration cfg holds the constructor's arguments and the *)
(* compiled patterns it reads from the pattern table; a pattern is a       *)
(* literal that must match at the start of the text, as pattern.match does.*)
(***************************************************************************)

\* The table of AsciiMapping.json, for the brackets and title marks
AsciiMapping ==
    [c \in {"U+FF08", "U+FF09", "U+300A", "U+300B"} |->
        CASE c = "U+FF08" -> "("
          [] c = "U+FF09" -> ")"
          [] c = "U+300A" -> "<"
          [] c = "U+300B" -> ">"]

\* text_util.to_ascii
ToAscii(t) ==
    [i \in 1..Len(t) |-> IF t[i] \in DOMAIN AsciiMapping THEN AsciiMapping[t[i]] ELSE t[i]]

\* text_util.remove_all_whitespaces
RemoveAllWhitespaces(t) == SelectSeq(t, LAMBDA c : ~IsWhitespace(c))

\* not text or not text.strip()
IsBlank(t) == \A i \in 1..Len(t) : IsWhitespace(t[i])

\* LawTitleTokenizer._normalize_text
NormalizeText(t) == RemoveAllWhitespaces(ToAscii(UnescapeHtmlEntities(t)))

\* config["about_chinese"] and config["forward_chinese"], one character each
ABOUT_CHINESE == <<"about">>
FORWARD_CHINESE == <<"forward">>

\* LawTitleTokenizer._bracket_extractor
BracketExtractor ==
    [kind |-> "paired", left |-> <<"(">>, right |-> <<")">>, include_symbols |-> TRUE,
     strategy |-> "outermost", allow_fallback_on_unclosed |-> TRUE]

\* self._prefix_extractor
PrefixExtractor(cfg) ==
    [kind |-> "keyword", keywords |-> cfg.prefixes, ignore_overlaps |-> TRUE]

NoTokenSpan == [kind |-> "none"]

\* TokenSpan(...) (models.py)
TokenSpan(core, normalized_text, nested, prefixes, suffixes, outer, inner) ==
    [kind |-> "token_span", core |-> core, normalized_text |-> normalized_text,
     nested |-> nested, prefixes |-> prefixes, suffixes |-> suffixes,
     outer |-> outer, inner |-> inner]

\* any(p.match(s) for p in patterns)
AnyPatternMatches(patterns, s) == \E p \in patterns : StartsWithAt(s, p, 0)

IsFirstOnlyPrefix(cfg, prefix) ==
    cfg.first_only_prefixes # {} /\ prefix.text \in cfg.first_only_prefixes

IsLastOnlyPrefix(cfg, prefix) ==
    cfg.last_only_prefixes # {} /\ prefix.text \in cfg.last_only_prefixes

IsValidPrefix(cfg, prefix) ==
    IF IsFirstOnlyPrefix(cfg, prefix) THEN prefix.start = 0 ELSE TRUE

IsValidSuffix(cfg, suffix) ==
    IF cfg.strict THEN AnyPatternMatches(cfg.title_suffixes, suffix.text) ELSE TRUE

\* {x.start: x for x in brackets}.get(key): the last bracket with that start
BracketsStartingAt(brackets, key) == {j \in 1..Len(brackets) : brackets[j].start = key}

\* {x.end: x for x in brackets}.get(key)
BracketsEndingAt(brackets, key) == {j \in 1..Len(brackets) : brackets[j].end = key}

\* while bracket := start_idx_lookup.get(start_idx): start_idx = bracket.end
RECURSIVE SkipBrackets(_, _)
SkipBrackets(brackets, start_idx) ==
    IF BracketsStartingAt(brackets, start_idx) = {} THEN start_idx
    ELSE SkipBrackets(brackets, brackets[MaxOf(BracketsStartingAt(brackets, start_idx))].end)

\* while start_idx < len(text) and text[start_idx] == ",": start_idx += 1
RECURSIVE SkipCommas(_, _)
SkipCommas(t, start_idx) ==
    IF start_idx < Len(t) /\ t[start_idx + 1] = "," THEN SkipCommas(t, start_idx + 1)
    ELSE start_idx

\* The loop of LawTitleTokenizer._extract_prefixes from the k-th promulgator on
RECURSIVE PrefixWalk(_, _, _, _, _, _)
PrefixWalk(cfg, t, promulgators, brackets, k, start_idx) ==
    IF k > Len(promulgators) THEN start_idx
    ELSE LET item == promulgators[k] IN
         IF item.start > start_idx \/ ~IsValidPrefix(cfg, item) THEN start_idx
         ELSE IF item.start < start_idx
              THEN PrefixWalk(cfg, t, promulgators, brackets, k + 1, start_idx)
         ELSE LET moved == SkipCommas(t, SkipBrackets(brackets, item.end)) IN
              IF IsLastOnlyPrefix(cfg, item) THEN moved
              ELSE PrefixWalk(cfg, t, promulgators, brackets, k + 1, moved)

\* return start_idx, [x for x in promulgators if x.end <= start_idx]
PrefixesUpTo(promulgators, start_idx) ==
    [start_idx |-> start_idx,
     prefixes |-> SelectSeq(promulgators, LAMBDA x : x.end <= start_idx)]

\* LawTitleTokenizer._extract_prefixes, from the sorted promulgators on
PrefixesAmong(cfg, t, promulgators) ==
    IF promulgators = <<>> THEN [start_idx |-> 0, prefixes |-> <<>>]
    ELSE PrefixesUpTo(promulgators,
            PrefixWalk(cfg, t, promulgators, PairedExtract(BracketExtractor, t), 1, 0))

\* LawTitleTokenizer._extract_prefixes
LawTitleExtractPrefixes(cfg, t) ==
    PrefixesAmong(cfg, t, SortedByKey(KeywordExtract(PrefixExtractor(cfg), t), "earliest"))

\* The loop of LawTitleTokenizer._extract_suffixes, leftwards from end_idx
RECURSIVE SuffixWalk(_, _, _, _)
SuffixWalk(cfg, brackets, end_idx, trailing_brackets) ==
    IF BracketsEndingAt(brackets, end_idx) = {}
    THEN [end_idx |-> end_idx, suffixes |-> trailing_brackets]
    ELSE LET bracket == brackets[MaxOf(BracketsEndingAt(brackets, end_idx))] IN
         IF ~IsValidSuffix(cfg, bracket)
         THEN [end_idx |-> end_idx, suffixes |-> trailing_brackets]
         ELSE SuffixWalk(cfg, brackets, bracket.start, Append(trailing_brackets, bracket))

\* trailing.sort(key=lambda s: s.start); return end_idx, trailing
SuffixesInOrder(walked) ==
    [end_idx |-> walked.end_idx, suffixes |-> SortedByKey(walked.suffixes, "earliest")]

\* LawTitleTokenizer._extract_suffixes
LawTitleExtractSuffixes(cfg, t) ==
    IF t = <<>> \/ t[Len(t)] # ")" THEN [end_idx |-> Len(t), suffixes |-> <<>>]
    ELSE SuffixesInOrder(SuffixWalk(cfg, PairedExtract(BracketExtractor, t), Len(t), <<>>))

\* NestedLawTitleTokenizer._extract_prefix_about
ExtractPrefixAbout(cfg, t, offset) ==
    IF \/ Find(t, FORWARD_CHINESE, 0, Len(t)) # -1
       \/ (Find(t, <<"<">>, 0, Len(t)) # -1 /\ Find(t, <<">">>, 0, Len(t)) # -1)
    THEN [found |-> FALSE]
    ELSE LET about_idx == Find(t, ABOUT_CHINESE, offset, Len(t)) IN
         IF about_idx = -1 \/ (cfg.strict /\ about_idx # offset)
         THEN [found |-> FALSE]
         ELSE [found |-> TRUE,
               token |-> Segment(PySlice(t, offset, about_idx + Len(ABOUT_CHINESE)),
                                 offset, about_idx + Len(ABOUT_CHINESE))]

\* if about: start_idx = about_idx; prefixes.append(about)
WithPrefixAbout(base, about) ==
    IF about.found
    THEN [start_idx |-> about.token.end, prefixes |-> Append(base.prefixes, about.token)]
    ELSE base

\* NestedLawTitleTokenizer._extract_prefixes, from the promulgator prefixes on
WithAboutAfter(cfg, t, base) ==
    WithPrefixAbout(base, ExtractPrefixAbout(cfg, t, base.start_idx))

\* NestedLawTitleTokenizer._extract_prefixes
NestedExtractPrefixes(cfg, t) == WithAboutAfter(cfg, t, LawTitleExtractPrefixes(cfg, t))

\* self._extract_prefixes, by the tokenizer's class
ExtractPrefixes(cfg, t) ==
    IF cfg.kind = "nested" THEN NestedExtractPrefixes(cfg, t)
    ELSE LawTitleExtractPrefixes(cfg, t)

\* LawTitleTokenizer._extract_token_span, from the extracted prefixes p and
\* suffixes s on: the guard on the core bounds and the TokenSpan
CoreBetween(t, p, s) ==
    IF p.start_idx >= s.end_idx
    THEN TokenSpan(Segment(PySlice(t, 0, Len(t)), 0, Len(t)), t, FALSE,
                   p.prefixes, s.suffixes, NoTokenSpan, NoTokenSpan)
    ELSE TokenSpan(Segment(PySlice(t, p.start_idx, s.end_idx), p.start_idx, s.end_idx),
                   t, FALSE, p.prefixes, s.suffixes, NoTokenSpan, NoTokenSpan)

\* LawTitleTokenizer._extract_token_span
LawTitleExtractTokenSpan(cfg, t) ==
    CoreBetween(t, ExtractPrefixes(cfg, t), LawTitleExtractSuffixes(cfg, t))

\* self._nested_pattern.match(text): the title between the first "<" and the
\* first ">" after it is group 1
NestedPatternMatch(t) ==
    LET open == Find(t, <<"<">>, 0, Len(t))
        close == IF open = -1 THEN -1 ELSE Find(t, <<">">>, open + 2, Len(t))
    IN IF close = -1 THEN [matched |-> FALSE]
       ELSE [matched |-> TRUE, start |-> open + 1, group |-> PySlice(t, open + 1, close)]

\* NestedLawTitleTokenizer._extract_nested_text
ExtractNestedText(cfg, t, base_span) ==
    IF Find(t, FORWARD_CHINESE, 0, Len(t)) # -1 THEN [found |-> FALSE]
    ELSE IF ~NestedPatternMatch(t).matched THEN [found |-> FALSE]
    ELSE IF cfg.strict /\ ~AnyPatternMatches(cfg.nested_title_strict, base_span.core.text)
         THEN [found |-> FALSE]
    ELSE [found |-> TRUE, offset |-> NestedPatternMatch(t).start,
          nested_text |-> NestedPatternMatch(t).group]

\* LawTitleTokenizer._update_token_offset
UpdateTokenOffset(token, offset) ==
    [token EXCEPT !.start = @ + offset, !.end = @ + offset]

\* NestedLawTitleTokenizer._update_token_span_offset
UpdateTokenSpanOffset(base_span, offset) ==
    [base_span EXCEPT
        !.core = UpdateTokenOffset(@, offset),
        !.prefixes = [i \in 1..Len(@) |-> UpdateTokenOffset(@[i], offset)],
        !.suffixes = [i \in 1..Len(@) |-> UpdateTokenOffset(@[i], offset)]]

\* NestedLawTitleTokenizer._merge_token_span
MergeTokenSpan(base_span, nested_span) ==
    TokenSpan(nested_span.core, base_span.normalized_text, TRUE,
              SortedByKey(base_span.prefixes \o nested_span.prefixes, "earliest"),
              SortedByKey(base_span.suffixes \o nested_span.suffixes, "earliest"),
              base_span, nested_span)

\* The token span of the nested text, shifted to its offset
NestedTokenSpanOf(cfg, nested) ==
    IF ~nested.found THEN NoTokenSpan
    ELSE UpdateTokenSpanOffset(LawTitleExtractTokenSpan(cfg, nested.nested_text),
                               nested.offset)

\* NestedLawTitleTokenizer._extract_nested_token_span
ExtractNestedTokenSpan(cfg, t, base_span) ==
    NestedTokenSpanOf(cfg, ExtractNestedText(cfg, t, base_span))

\* if nested_span := ...: return self._merge_token_span(base_span, nested_span)
MergeIfNested(base_span, nested_span) ==
    IF nested_span # NoTokenSpan THEN MergeTokenSpan(base_span, nested_span)
    ELSE base_span

\* NestedLawTitleTokenizer._extract_token_span, from the base span on
NestedFrom(cfg, t, base_span) ==
    MergeIfNested(base_span, ExtractNestedTokenSpan(cfg, t, base_span))

\* NestedLawTitleTokenizer._extract_token_span
NestedExtractTokenSpan(cfg, t) == NestedFrom(cfg, t, LawTitleExtractTokenSpan(cfg, t))

\* self._extract_token_span, by the tokenizer's class
ExtractTokenSpan(cfg, t) ==
    IF cfg.kind = "nested" THEN NestedExtractTokenSpan(cfg, t)
    ELSE LawTitleExtractTokenSpan(cfg, t)

\* LawTitleTokenizer._validate_input
ValidInput(t) == ~IsBlank(t)

\* LawTitleTokenizer.tokenize; NoTokenSpan when ValueError is raised
LawTitleTokenize(cfg, t) ==
    IF ~ValidInput(t) THEN NoTokenSpan ELSE ExtractTokenSpan(cfg, NormalizeText(t))

\* NoOpTokenizer.tokenize; NoTokenSpan when ValueError is raised
NoOpTokenize(t) ==
    IF ~ValidInput(t) THEN NoTokenSpan ELSE
    LET normalized_text == RemoveAllWhitespaces(ToAscii(UnescapeHtmlEntities(t))) IN
    TokenSpan(Segment(t, 0, Len(normalized_text)), normalized_text, FALSE,
              <<>>, <<>>, NoTokenSpan, NoTokenSpan)

(***************************************************************************)
(* searcher.py: MultiDimensionalInvertedIndex and LawTitleSearcher.        *)
(*                                                                         *)
(* An index is the set of its entries <<index_name, key, doc_id>>; keys    *)
(* and texts are sequences of characters.  A set of document ids is        *)
(* iterated in an order the program does not fix.                          *)
(***************************************************************************)

\* config["promulgator_mapping"]: promulgator names to their full names
PROMULGATOR_MAPPING == [k \in {<<"p">>, <<"p", "x">>} |-> <<"P">>]

\* config["country_scope"]
COUNTRY_SCOPE == <<"country">>

\* config["common_prefixes"]
COMMON_PREFIXES == {<<"P">>}

\* config["ineffective_status"]
INEFFECTIVE_STATUS == {<<"repealed">>}

\* MultiDimensionalInvertedIndex._convert_to_fullname, for one key
ConvertToFullname(x) ==
    IF x \in DOMAIN PROMULGATOR_MAPPING THEN PROMULGATOR_MAPPING[x] ELSE x

\* The keys of a list of keys
KeysOf(keys) == {keys[i] : i \in DOMAIN keys}

\* index.get(key, set())
IndexGet(entries, index_name, key) ==
    {e[3] : e \in {x \in entries : x[1] = index_name /\ x[2] = key}}

\* MultiDimensionalInvertedIndex.search_by_index, keys given as a set
SearchByIndex(entries, index_name, keys, union) ==
    IF keys = {} \/ ~\E e \in entries : e[1] = index_name THEN {}
    ELSE LET converted == IF index_name \in {"prefix_index", "promulgator_index"}
                          THEN {ConvertToFullname(k) : k \in keys}
                          ELSE keys
         IN IF union
            THEN UNION {IndexGet(entries, index_name, k) : k \in converted}
            ELSE {d \in {e[3] : e \in entries} :
                     \A k \in converted : d \in IndexGet(entries, index_name, k)}

\* text_util.unpack_date and MultiDimensionalInvertedIndex._unpack_date: the
\* keys of a day, of its month and of its year; all days are of one month
UnpackDate(epoch_seconds) == {<<"y", "m", epoch_seconds>>, <<"y", "m">>, <<"y">>}

\* token_span.text_prefixes, token_span.text_suffixes
TextsOf(tokens) == [i \in DOMAIN tokens |-> tokens[i].text]

\* keys_by_index_name of add_tokenized_document and _update_inverted_index,
\* as entries
KeysByIndexName(doc_meta, span) ==
    UNION {
        {<<"date_index", k, doc_meta.doc_id>> :
            k \in UnpackDate(doc_meta.release_date)
                  \cup (IF doc_meta.effective_date # 0
                        THEN UnpackDate(doc_meta.effective_date) ELSE {})},
        {<<"version_index", doc_meta.version, doc_meta.doc_id>>},
        {<<"suffix_index", k, doc_meta.doc_id>> : k \in KeysOf(TextsOf(span.suffixes))},
        {<<"prefix_index", ConvertToFullname(k), doc_meta.doc_id>> :
            k \in KeysOf(TextsOf(span.prefixes))},
        {<<"promulgator_index", ConvertToFullname(k), doc_meta.doc_id>> :
            k \in KeysOf(doc_meta.promulgators)},
        IF doc_meta.effective_scope # NoneText
        THEN {<<"scope_index", doc_meta.effective_scope, doc_meta.doc_id>>} ELSE {},
        IF span.prefixes = <<>>
        THEN {<<"empty_prefix_index", span.core.text, doc_meta.doc_id>>} ELSE {},
        IF span.inner # NoTokenSpan
        THEN {<<"inner_empty_prefix_index", span.inner.core.text, doc_meta.doc_id>>}
        ELSE {} }

\* MultiDimensionalInvertedIndex.add_tokenized_document
AddTokenizedDocument(index, doc_meta, span) ==
    [documents |-> index.documents \cup {doc_meta},
     entries |-> index.entries \cup KeysByIndexName(doc_meta, span)]

\* MultiDimensionalInvertedIndex.get_documents: the lists it can return, one
\* for each order of iterating the set of ids
GetDocuments(index, doc_ids) ==
    LET found == {d \in index.documents : d.doc_id \in doc_ids}
    IN {l \in [1..Cardinality(found) -> found] :
            \A i, j \in DOMAIN l : i # j => l[i] # l[j]}

\* DocMeta (models.py); a date is an integer, 0 where the field is None
DocMeta(doc_id, doc_type, title, core_term, status, release_date, version, promulgators, effective_status, effective_scope, effective_date) ==
    [doc_id |-> doc_id, doc_type |-> doc_type, title |-> title,
     core_term |-> core_term, status |-> status, release_date |-> release_date,
     version |-> version, promulgators |-> promulgators,
     effective_status |-> effective_status, effective_scope |-> effective_scope,
     effective_date |-> effective_date]

\* EntityDTO (models.py): attrs maps the attribute types present to their texts
EntityDTO(entity_text, entity_attrs) == [text |-> entity_text, attrs |-> entity_attrs]

\* attributes.get(entity_type), the empty set for None
AttributesGet(attributes, entity_type) ==
    IF entity_type \in DOMAIN attributes THEN attributes[entity_type] ELSE {}

\* LawTitleSearcher.__init__: the tokenizers of the searcher
TitleSuffixPatterns == {<<"(", "x">>}
NestedTitleStrictPatterns == {<<"<">>, <<"p">>}

NestedTokenizerOf(promulgators, strict) ==
    [kind |-> "nested", prefixes |-> promulgators, strict |-> strict,
     first_only_prefixes |-> {}, last_only_prefixes |-> {},
     title_suffixes |-> TitleSuffixPatterns,
     nested_title_strict |-> NestedTitleStrictPatterns]

nested_tokenizer == NestedTokenizerOf(DOMAIN PROMULGATOR_MAPPING, FALSE)

strict_tokenizer ==
    [kind |-> "law_title", prefixes |-> DOMAIN PROMULGATOR_MAPPING \cup {ABOUT_CHINESE},
     strict |-> TRUE, first_only_prefixes |-> {},
     last_only_prefixes |-> {ABOUT_CHINESE},
     title_suffixes |-> TitleSuffixPatterns, nested_title_strict |-> {}]

strict_nested_tokenizer == NestedTokenizerOf(DOMAIN PROMULGATOR_MAPPING, TRUE)

no_op_tokenizer == [kind |-> "no_op"]

\* tokenizer.tokenize(text), by the tokenizer's class
Tokenize(cfg, t) ==
    IF cfg.kind = "no_op" THEN NoOpTokenize(t) ELSE LawTitleTokenize(cfg, t)

\* _is_after
IsAfter(epoch_seconds, epoch_seconds2) ==
    IF epoch_seconds # 0 /\ epoch_seconds2 # 0
    THEN epoch_seconds > epoch_seconds2 ELSE FALSE

\* LawTitleSearcher._is_valid_document
IsValidDocument(doc_meta, metadata) ==
    IF IsAfter(doc_meta.release_date, metadata.release_date) THEN FALSE
    ELSE IF metadata.doc_type \in {<<"Case">>, <<"Administrative Penalty">>}
            /\ (IsAfter(doc_meta.effective_date, metadata.release_date)
                \/ doc_meta.effective_status \in INEFFECTIVE_STATUS)
         THEN FALSE
         ELSE TRUE

\* contains(#type, :doc_type) of the DynamoDB filter: a doc_type is the
\* sequence of its words
ContainsLegislation(doc_type) == \E i \in DOMAIN doc_type : doc_type[i] = "Legislation"

\* LawTitleSearcher._query_documents_by_core_term, as the set of documents
\* the query returns
QueryDocumentsByCoreTerm(table, core_term, metadata) ==
    {x \in table : /\ x.core_term = core_term
                   /\ ContainsLegislation(x.doc_type)
                   /\ x.status = 1
                   /\ IsValidDocument(x, metadata)}

\* LawTitleSearcher._extract_core_term_from_entity
ExtractCoreTermFromEntity(entity) == Tokenize(nested_tokenizer, entity.text).core.text

\* the outer token span if the entity is nested
OuterIfNested(span) == IF span.outer # NoTokenSpan THEN span.outer ELSE span

\* LawTitleSearcher._extract_token_span_from_entity: the token span
ExtractTokenSpanFromEntity(entity) ==
    OuterIfNested(Tokenize(strict_nested_tokenizer, entity.text))

\* LawTitleSearcher._extract_token_span_from_entity: is_nested_entity
IsNestedEntity(entity) == Tokenize(strict_nested_tokenizer, entity.text).nested

\* LawTitleSearcher._get_document_tokenizer
GetDocumentTokenizer(doc_meta, is_nested_entity) ==
    IF doc_meta.doc_type # <<"Legislation">> THEN no_op_tokenizer
    ELSE IF is_nested_entity \/ doc_meta.effective_scope # COUNTRY_SCOPE
         THEN strict_tokenizer
         ELSE IF ~(KeysOf(doc_meta.promulgators) \subseteq DOMAIN PROMULGATOR_MAPPING)
              THEN NestedTokenizerOf(KeysOf(doc_meta.promulgators)
                                     \cup DOMAIN PROMULGATOR_MAPPING, TRUE)
              ELSE strict_nested_tokenizer

\* LawTitleSearcher._extract_token_span_from_document
ExtractTokenSpanFromDocument(doc_meta, is_nested_entity) ==
    Tokenize(GetDocumentTokenizer(doc_meta, is_nested_entity), doc_meta.title)

EmptyIndex == [documents |-> {}, entries |-> {}]

\* add_tokenized_document for a document whose core term is the entity's
AddIfSameCoreTerm(index, doc_meta, doc_token_span, core_term) ==
    IF doc_token_span.core.text = core_term
    THEN AddTokenizedDocument(index, doc_meta, doc_token_span)
    ELSE index

\* LawTitleSearcher._build_multi_dim_inverted_index; the index does not
\* depend on the order of doc_meta_list
BuildMultiDimInvertedIndex(docs, core_term, is_nested_entity) ==
    [documents |->
        {d \in docs :
            ExtractTokenSpanFromDocument(d, is_nested_entity).core.text = core_term},
     entries |->
        UNION {AddIfSameCoreTerm(EmptyIndex, d,
                   ExtractTokenSpanFromDocument(d, is_nested_entity),
                   core_term).entries : d \in docs}]

\* The key True of search_by_index("inner_empty_prefix_index", [True]): it
\* equals no text
TRUE_KEY == <<"True">>

\* LawTitleSearcher._search_by_prefixes, step 3
SearchByCountryScope(index) ==
    SearchByIndex(index.entries, "scope_index", {COUNTRY_SCOPE}, FALSE)
    \cap (SearchByIndex(index.entries, "inner_empty_prefix_index", {TRUE_KEY}, FALSE)
          \cup SearchByIndex(index.entries, "prefix_index", {ABOUT_CHINESE}, FALSE))

\* LawTitleSearcher._search_by_prefixes, step 2
SearchWithoutPrefixes(span, attributes, index) ==
    SearchByIndex(index.entries, "empty_prefix_index", {span.core.text}, FALSE)
    \cup SearchByIndex(index.entries, "prefix_index", COMMON_PREFIXES, TRUE)
    \cup SearchByIndex(index.entries, "promulgator_index",
                       AttributesGet(attributes, "PROMULGATOR"), FALSE)

\* LawTitleSearcher._search_by_prefixes
SearchByPrefixes(span, attributes, index) ==
    IF span.prefixes # <<>>
    THEN SearchByIndex(index.entries, "prefix_index", KeysOf(TextsOf(span.prefixes)), FALSE)
    ELSE IF SearchWithoutPrefixes(span, attributes, index) # {}
         THEN SearchWithoutPrefixes(span, attributes, index)
         ELSE SearchByCountryScope(index)

\* LawTitleSearcher._search_by_attributes
SearchByAttributes(attributes, index) ==
    SearchByIndex(index.entries, "date_index", AttributesGet(attributes, "DATE"), FALSE)
    \cup SearchByIndex(index.entries, "version_index",
                       AttributesGet(attributes, "ISSUE_NO"), FALSE)
    \cup SearchByIndex(index.entries, "promulgator_index",
                       AttributesGet(attributes, "PROMULGATOR"), FALSE)

\* The same assignment made whatever allow_fuzzy_search says
NarrowedToAlways(matched, searched, fuzzy_search) == searched

\* `if searched or not allow_fuzzy_search: matched_doc_ids = searched`
NarrowedTo(matched, searched, fuzzy_search) ==
    IF searched # {} \/ ~fuzzy_search THEN searched ELSE matched

\* _perform_multi_dimensional_search, step 2
FilterBySuffixes(matched, span, index, fuzzy_search) ==
    IF matched # {} /\ span.suffixes # <<>>
    THEN NarrowedTo(matched,
                    matched \cap SearchByIndex(index.entries, "suffix_index",
                                               KeysOf(TextsOf(span.suffixes)), FALSE),
                    fuzzy_search)
    ELSE matched

\* _perform_multi_dimensional_search, step 3
FilterByAttributes(matched, attributes, index, fuzzy_search) ==
    IF matched # {} /\ DOMAIN attributes # {}
    THEN NarrowedTo(matched, matched \cap SearchByAttributes(attributes, index),
                    fuzzy_search)
    ELSE matched

\* LawTitleSearcher._perform_multi_dimensional_search
PerformMultiDimensionalSearch(span, attributes, index, fuzzy_search) ==
    FilterByAttributes(
        FilterBySuffixes(SearchByPrefixes(span, attributes, index), span, index,
                         fuzzy_search),
        attributes, index, fuzzy_search)

\* The sort key of search_best: False sorts before True
BoolRank(b) == IF b THEN 1 ELSE 0

SortKey(x) == <<BoolRank(x.doc_type = <<"Legislation">>),
                BoolRank(x.effective_scope = COUNTRY_SCOPE),
                -x.release_date>>

\* Python's comparison of two sort keys
SortKeyLess(a, b) ==
    \/ a[1] < b[1]
    \/ a[1] = b[1] /\ a[2] < b[2]
    \/ a[1] = b[1] /\ a[2] = b[2] /\ a[3] < b[3]

\* doc_meta_list.sort(key=...): ascending and stable
RECURSIVE InsertBySortKey(_, _)
InsertBySortKey(sorted, x) ==
    IF sorted = <<>> THEN <<x>>
    ELSE IF SortKeyLess(SortKey(x), SortKey(Head(sorted))) THEN <<x>> \o sorted
    ELSE <<Head(sorted)>> \o InsertBySortKey(Tail(sorted), x)

RECURSIVE SortedBySortKey(_)
SortedBySortKey(docs) ==
    IF docs = <<>> THEN <<>>
    ELSE InsertBySortKey(SortedBySortKey(SubSeq(docs, 1, Len(docs) - 1)),
                         docs[Len(docs)])

\* [x for x in doc_meta_list if x.doc_id != metadata.doc_id]
ExcludeCurrent(docs, metadata) == SelectSeq(docs, LAMBDA x : x.doc_id # metadata.doc_id)

\* round(1.0 / n, 2) in hundredths; the only exact tie below 16, 1/8, rounds
\* to even
RoundedConfidence(n) ==
    IF 2 * (100 % n) > n \/ (2 * (100 % n) = n /\ ((100 \div n) % 2 = 1))
    THEN (100 \div n) + 1 ELSE 100 \div n

NoDocMeta == [doc_id |-> "None"]

SearchBestResult(confidence_score, doc_meta, total_matches) ==
    [confidence_score |-> confidence_score, doc_meta |-> doc_meta,
     total_matches |-> total_matches]

\* the result of search_best for the candidates left after the filter
BestOf(candidates) ==
    IF candidates = <<>> THEN SearchBestResult(0, NoDocMeta, 0)
    ELSE SearchBestResult(RoundedConfidence(Len(candidates)),
                          SortedBySortKey(candidates)[1], Len(candidates))

\* search_best without the filter on the current document
SearchBestWithoutExclusion(docs, metadata) == BestOf(docs)

\* LawTitleSearcher.search_best, given the list _search returned
SearchBest(docs, metadata) == BestOf(ExcludeCurrent(docs, metadata))

(***************************************************************************)
(* searcher.py: batch_search_best.  The searches run on the threads of a   *)
(* ThreadPoolExecutor, so the call is a sequence of steps interleaved with *)
(* the steps of the workers.  An entity is named by its position and is    *)
(* given as the outcome of its search, "ok" or "raise".                    *)
(***************************************************************************)

\* The value search_best returns for entity i, and the None the list is
\* filled with
ResultFor(i) == [entity |-> i]
NotSearched == [entity |-> 0]

Min(a, b) == IF a <= b THEN a ELSE b

\* ThreadPoolExecutor(max_workers=min(max_workers, len(entities)))
PoolSize(batch_max_workers, batch) == Min(batch_max_workers, Len(batch))

FuturesIn(fs, states) == {i \in DOMAIN fs : fs[i] \in states}

\* The work queue of the executor is first in, first out
NextQueued(fs) == MinOf(FuturesIn(fs, {"pending"}))

(***************************************************************************)
(* ratelimiter.py: TokenBucketLimiter.  Times are whole ticks, of which    *)
(* TicksPerSecond make a second.                                           *)
(***************************************************************************)

TicksPerSecond == 2

\* (current_time - last_updated).total_seconds() // refill_interval
ElapsedIntervals(now, updated, interval) == (now - updated) \div (interval * TicksPerSecond)

\* int(elapsed_intervals * self.refill_rate)
RefillCount(now, updated, interval, rate) == ElapsedIntervals(now, updated, interval) * rate

\* _refill: the token_num and last_updated it leaves
Refill(bucket, now) ==
    IF ElapsedIntervals(now, bucket.last_updated, bucket.refill_interval) > 0
    THEN LET refill_count == RefillCount(now, bucket.last_updated, bucket.refill_interval,
                                         bucket.refill_rate)
         IN [bucket EXCEPT
                !.token_num = Min(bucket.token_num + refill_count, bucket.capacity),
                !.last_updated = Min(now, bucket.last_updated
                                          + refill_count * bucket.refill_interval * TicksPerSecond)]
    ELSE bucket

(***************************************************************************)
(* The extractors under check: texts and configurations.                   *)
(***************************************************************************)

MaxBracketTextLen == 5
MaxWordTextLen == 4

SeqsUpTo(S, n) == UNION {[1..k -> S] : k \in 0..n}

ExtractTexts ==
    SeqsUpTo({"(", ")", "a"}, MaxBracketTextLen)
    \cup SeqsUpTo({"a", "b", "c", "d"}, MaxWordTextLen)

SymbolPairs ==
    { << <<"(">>, <<")">> >>, << <<"(", "(">>, <<")", ")">> >> }

PairedConfigs ==
    {[kind |-> "paired", left |-> p[1], right |-> p[2], include_symbols |-> inc,
      strategy |-> st, allow_fallback_on_unclosed |-> fb] :
        p \in SymbolPairs, inc \in BOOLEAN,
        st \in {"all", "outermost", "innermost"}, fb \in BOOLEAN}

KeywordSets ==
    { {<<"a">>, <<"a", "b">>, <<"a", "b", "c">>, <<"a", "b", "c", "d">>},
      {<<"a", "b">>, <<"b", "c">>, <<"a", "b", "c">>, <<"b", "c", "d">>},
      {<<"a">>, <<"a", " ">>, <<"b", "a">>},
      {<<"a">>, <<"a", "b">>, <<"a", "b", " ", " ">>},
      {<<"b">>, <<"a", "b", "c", "d", "a">>},
      {<<"c">>} }

KeywordConfigs ==
    {[kind |-> "keyword", keywords |-> ks, ignore_overlaps |-> io] :
        ks \in KeywordSets, io \in BOOLEAN}

OptionalGroup == [pre |-> <<"a">>, grp |-> <<"b">>, optional |-> TRUE, post |-> <<"c">>]
RequiredGroup == [pre |-> <<"a">>, grp |-> <<"b">>, optional |-> FALSE, post |-> <<>>]
BracketGroup == [pre |-> <<"(">>, grp |-> <<"a">>, optional |-> TRUE, post |-> <<")">>]

PatternConfigs ==
    {[kind |-> "pattern", patterns |-> ps, stop_on_first |-> sf, group |-> g] :
        ps \in { <<OptionalGroup>>, <<RequiredGroup>>, <<BracketGroup>>,
                 <<RequiredGroup, OptionalGroup>>, <<OptionalGroup, RequiredGroup>> },
        sf \in BOOLEAN, g \in {0, 1}}

InnerOfBrackets ==
    [kind |-> "paired", left |-> <<"(">>, right |-> <<")">>, include_symbols |-> FALSE,
     strategy |-> "all", allow_fallback_on_unclosed |-> FALSE]
OuterBrackets ==
    [kind |-> "paired", left |-> <<"(">>, right |-> <<")">>, include_symbols |-> TRUE,
     strategy |-> "outermost", allow_fallback_on_unclosed |-> TRUE]
WordA ==
    [kind |-> "keyword", keywords |-> {<<"a">>, <<"a", "a">>}, ignore_overlaps |-> TRUE]
GroupInBrackets ==
    [kind |-> "pattern", patterns |-> <<BracketGroup>>, stop_on_first |-> FALSE, group |-> 1]

ChainLevels ==
    { <<InnerOfBrackets>>, <<OuterBrackets>>, <<WordA>>, <<GroupInBrackets>>,
      <<InnerOfBrackets, WordA>> }

ChainedConfigs ==
    {[kind |-> "chained", levels |-> ls] :
        ls \in {<< a >> : a \in ChainLevels}
               \cup {<< a, b >> : a \in ChainLevels, b \in ChainLevels}
               \cup {<< <<InnerOfBrackets>>, <<InnerOfBrackets>>, c >> : c \in ChainLevels}}

NoExtractor == [kind |-> "none"]
NoCall == [strategy |-> "none"]

\* No extractor has run.
ExtractIdle == extractor = NoExtractor /\ spans = <<>>

\* resolve_overlaps has not been called.
OverlapIdle == segments = <<>> /\ overlap_call = NoCall /\ resolved = <<>>

\* resolve_entities has not been called.
ResolverIdle ==
    /\ entities = <<>>
    /\ entities_it = <<>>
    /\ entity_list = <<>>
    /\ attrs = <<>>
    /\ refers_to = <<>>
    /\ stages_run = <<>>

NoTokenizer == [kind |-> "none"]

\* No tokenizer has been called.
TokenizerIdle == tokenizer = NoTokenizer /\ token_span = NoTokenSpan

NoEntity == [text |-> <<>>]
NoMetadata == [doc_id |-> "None"]
NoResult == [confidence_score |-> -1]

\* search_best has not been called.
SearchIdle ==
    /\ allow_fuzzy_search = FALSE
    /\ doc_table = {}
    /\ query_entity = NoEntity
    /\ query_metadata = NoMetadata
    /\ search_stages = <<>>
    /\ inverted_index = EmptyIndex
    /\ matched_doc_ids = {}
    /\ doc_meta_list = <<>>
    /\ best_result = NoResult

\* No TokenBucketLimiter has been constructed.
LimiterIdle ==
    /\ capacity = 0
    /\ refill_rate = 0
    /\ refill_interval = 0
    /\ token_num = 0
    /\ last_updated = 0
    /\ current_time = 0
    /\ acquire_log = <<>>

\* batch_search_best has not been called.
BatchIdle ==
    /\ batch_entities = <<>>
    /\ max_workers = 0
    /\ futures = <<>>
    /\ search_results = <<>>
    /\ batch_state = "idle"

InitExtract ==
    /\ text \in ExtractTexts
    /\ raised = FALSE
    /\ ExtractIdle
    /\ OverlapIdle
    /\ ResolverIdle
    /\ TokenizerIdle
    /\ SearchIdle
    /\ BatchIdle
    /\ LimiterIdle

\* PairedSymbolExtractor(...).extract(text), consumed to the end
RunPaired ==
    /\ extractor = NoExtractor
    /\ \E cfg \in PairedConfigs :
        /\ extractor' = cfg
        /\ spans' = PairedExtract(cfg, text)
    /\ UNCHANGED <<limiterVars, searchVars, batchVars, text, raised, overlapVars, resolverVars, tokenizerVars>>

\* KeywordExtractor(...).extract(text), consumed to the end
RunKeyword ==
    /\ extractor = NoExtractor
    /\ \E cfg \in KeywordConfigs :
        /\ extractor' = cfg
        /\ spans' = KeywordExtract(cfg, text)
    /\ UNCHANGED <<limiterVars, searchVars, batchVars, text, raised, overlapVars, resolverVars, tokenizerVars>>

\* PatternExtractor(...).extract(text), consumed to the end
RunPattern ==
    /\ extractor = NoExtractor
    /\ \E cfg \in PatternConfigs :
        /\ extractor' = cfg
        /\ spans' = PatternExtract(cfg, text)
    /\ UNCHANGED <<limiterVars, searchVars, batchVars, text, raised, overlapVars, resolverVars, tokenizerVars>>

\* ChainedExtractor(...).then(...).extract(text), consumed until it ends or raises
RunChained ==
    /\ extractor = NoExtractor
    /\ \E cfg \in ChainedConfigs :
        LET r == ChainedExtract(cfg, text) IN
        /\ extractor' = cfg
        /\ spans' = r.out
        /\ raised' = r.raised
    /\ UNCHANGED <<limiterVars, searchVars, batchVars, text, overlapVars, resolverVars, tokenizerVars>>

MaxAbbrDefs == 2

\* The definitions BracketEntityExtractor can find in a text: occurrences of
\* one or two characters other than brackets, in the order of their
\* positions, none overlapping.
DefinitionSpans(t) ==
    {p \in (0..(Len(t) - 1)) \X (1..Len(t)) :
        /\ p[2] \in {p[1] + 1, p[1] + 2}
        /\ \A i \in (p[1] + 1)..p[2] : t[i] \notin {"(", ")"}}

DefinitionLists(t) ==
    {ds \in UNION {[1..n -> DefinitionSpans(t)] : n \in 0..MaxAbbrDefs} :
        \A j \in 1..(Len(ds) - 1) : ds[j][2] <= ds[j + 1][1]}

\* extract_entities, lines 330-340: DynamicKeywordEntityExtractor(
\* dynamic_abbr_defs).extract(text), consumed to the end
RunDynamicKeyword ==
    /\ extractor = NoExtractor
    /\ \E ds \in DefinitionLists(text) :
        LET dynamic_abbr_defs == [j \in 1..Len(ds) |->
                                    Segment(PySlice(text, ds[j][1], ds[j][2]), ds[j][1], ds[j][2])]
        IN /\ extractor' = [kind |-> "dynamic_keyword", dynamic_abbr_defs |-> dynamic_abbr_defs]
           /\ spans' = DynamicKeywordExtract(dynamic_abbr_defs, text)
    /\ UNCHANGED <<limiterVars, searchVars, batchVars, text, raised, overlapVars, resolverVars, tokenizerVars>>

NextExtract == RunPaired \/ RunKeyword \/ RunPattern \/ RunChained \/ RunDynamicKeyword

SpecExtract == InitExtract /\ [][NextExtract]_vars

(***************************************************************************)
(* resolve_overlaps under check: the segment lists and the call.           *)
(***************************************************************************)

MaxSegments == 3

Positions == -2..2

SpanPairs == {p \in Positions \X Positions : p[1] <= p[2]}

\* A segment's text is its place in the caller's list, which tells equal
\* spans apart.
SegmentLists(k) ==
    {[i \in 1..k |-> Segment(i, f[i][1], f[i][2])] : f \in [1..k -> SpanPairs]}

Strategies == {"longest", "earliest", "earliest_longest"}

InitOverlaps ==
    /\ \E k \in 0..MaxSegments : segments \in SegmentLists(k)
    /\ overlap_call = NoCall
    /\ resolved = <<>>
    /\ text = <<>>
    /\ raised = FALSE
    /\ ExtractIdle
    /\ ResolverIdle
    /\ TokenizerIdle
    /\ SearchIdle
    /\ BatchIdle
    /\ LimiterIdle

\* resolve_overlaps(segments, strategy, direct_only)
CallResolveOverlaps ==
    /\ overlap_call = NoCall
    /\ \E st \in Strategies, d \in BOOLEAN :
        /\ overlap_call' = [strategy |-> st, direct_only |-> d]
        /\ resolved' = ResolveOverlaps(segments, st, d)
    /\ UNCHANGED <<limiterVars, searchVars, batchVars, segments, text, raised, extractVars, resolverVars, tokenizerVars>>

NextOverlaps == CallResolveOverlaps

SpecOverlaps == InitOverlaps /\ [][NextOverlaps]_vars

(***************************************************************************)
(* resolve_entities under check: documents, candidate streams, stages.     *)
(***************************************************************************)

MaxEntities == 2

\* Documents: "x" stands for the characters of an entity, around a left
\* bracket, a sentence ending, or a "<" that nothing closes.
Documents ==
    {<<"x", "x", "x">>, <<"x", "(", "x">>, <<"x", ".", "x">>, <<"x", "<", "x">>,
     <<"x", "(", ".", "x">>}

EntityTypes ==
    {"LAW_TITLE", "DATE", "PROMULGATOR", "LAW_SELF", "LAW_ARTICLE"}

\* Entity(text, start, end, entity_type) with text = document[start:end]
Entity(document, s, e, entity_type) ==
    [text |-> PySlice(document, s, e), start |-> s, end |-> e, entity_type |-> entity_type]

\* The spans of one or two characters of a document.
SpansOf(document) ==
    {p \in (0..(Len(document) - 1)) \X (1..Len(document)) : p[2] \in {p[1] + 1, p[1] + 2}}

EntitiesOf(document) ==
    {Entity(document, p[1], p[2], ty) : p \in SpansOf(document), ty \in EntityTypes}

CandidateStreams(document) ==
    UNION {[1..n -> EntitiesOf(document)] : n \in 0..MaxEntities}

Stages == <<"validate_entities", "resolve_overlaps", "associate_entities",
            "remove_orphan_entities">>

InitResolve ==
    /\ text \in Documents
    /\ entities \in CandidateStreams(text)
    /\ entities_it = [i \in 1..Len(entities) |-> i]
    /\ entity_list = entities_it
    /\ attrs = [i \in 1..Len(entities) |-> <<>>]
    /\ refers_to = [i \in 1..Len(entities) |-> None]
    /\ stages_run = <<>>
    /\ raised = FALSE
    /\ ExtractIdle
    /\ OverlapIdle
    /\ TokenizerIdle
    /\ SearchIdle
    /\ BatchIdle
    /\ LimiterIdle

\* resolve_entities, line 17: the candidate stream is filtered
ValidateStage ==
    /\ stages_run = <<>>
    /\ entity_list' = ValidateEntities(text, entities, entities_it)
    /\ stages_run' = Append(stages_run, "validate_entities")
    /\ UNCHANGED <<limiterVars, searchVars, batchVars, text, raised, entities, entities_it, attrs, refers_to,
                   extractVars, overlapVars, tokenizerVars>>

\* resolve_entities, line 21
ResolveOverlapsStage ==
    /\ stages_run = <<"validate_entities">>
    /\ entity_list' = ResolveEntityOverlaps(entities, entity_list)
    /\ stages_run' = Append(stages_run, "resolve_overlaps")
    /\ UNCHANGED <<limiterVars, searchVars, batchVars, text, raised, entities, entities_it, attrs, refers_to,
                   extractVars, overlapVars, tokenizerVars>>

\* resolve_entities, line 23
AssociateStage ==
    /\ stages_run = <<"validate_entities", "resolve_overlaps">>
    /\ LET st == AssociateEntities(text, entities, entity_list,
                    [attrs |-> attrs, refers_to |-> refers_to, raised |-> FALSE])
       IN /\ attrs' = st.attrs
          /\ refers_to' = st.refers_to
          /\ raised' = st.raised
    /\ stages_run' = Append(stages_run, "associate_entities")
    /\ UNCHANGED <<limiterVars, searchVars, batchVars, text, entities, entities_it, entity_list,
                   extractVars, overlapVars, tokenizerVars>>

\* resolve_entities, line 24
RemoveOrphansStage ==
    /\ stages_run = <<"validate_entities", "resolve_overlaps", "associate_entities">>
    /\ ~raised
    /\ entity_list' = RemoveOrphanEntities(entities, entity_list, refers_to)
    /\ stages_run' = Append(stages_run, "remove_orphan_entities")
    /\ UNCHANGED <<limiterVars, searchVars, batchVars, text, raised, entities, entities_it, attrs, refers_to,
                   extractVars, overlapVars, tokenizerVars>>

NextResolve == ValidateStage \/ ResolveOverlapsStage \/ AssociateStage \/ RemoveOrphansStage

SpecResolve == InitResolve /\ [][NextResolve]_vars

(***************************************************************************)
(* The resolver under check on the streams extract_entities produces for   *)
(* references: entities of one character in slots that a gap character     *)
(* separates, the dynamic abbreviations referring to a definition that is  *)
(* no member of the stream (extract_entities removes the definitions from  *)
(* the bracket entities before it yields them).                            *)
(***************************************************************************)

MaxSlots == 3

\* A slot holds an entity of one of these types, or plain text.
SlotTypes == {"LAW_TITLE", "DATE", "ISSUE_NO", "LAW_DYNAMIC_ABBR", "LAW_ARTICLE"}
PlainText == "TEXT"

\* Between two slots: a space, a left bracket or a sentence ending.
GapChars == {" ", "(", "."}

SlotDocument(gap_chars) ==
    [p \in 1..(2 * MaxSlots - 1) |-> IF p % 2 = 1 THEN "x" ELSE gap_chars[p \div 2]]

SlotStart(slot) == 2 * (slot - 1)

OccupiedSlots(slot_types) ==
    SelectSeq([i \in 1..MaxSlots |-> i], LAMBDA i : slot_types[i] # PlainText)

AbbrSlots(slot_types) == {i \in 1..MaxSlots : slot_types[i] = "LAW_DYNAMIC_ABBR"}

\* The definition of the abbreviation: none without a reference, else at
\* the first reference or at plain text before it (DynamicKeywordEntity-
\* Extractor.extract yields no reference that starts before its definition).
DefSlots(slot_types) ==
    IF AbbrSlots(slot_types) = {} THEN {0}
    ELSE {d \in 1..MinOf(AbbrSlots(slot_types)) :
            slot_types[d] \in {PlainText, "LAW_DYNAMIC_ABBR"}}

\* The stream in slot order, then the definition object when there is one.
SlotEntities(document, slot_types, def_slot) ==
    LET occupied == OccupiedSlots(slot_types)
        stream == [j \in 1..Len(occupied) |->
                      Entity(document, SlotStart(occupied[j]), SlotStart(occupied[j]) + 1,
                             slot_types[occupied[j]])]
    IN IF def_slot = 0 THEN stream
       ELSE Append(stream, Entity(document, SlotStart(def_slot), SlotStart(def_slot) + 1,
                                  "LAW_DYNAMIC_ABBR"))

InitResolveRefs ==
    /\ \E slot_types \in [1..MaxSlots -> SlotTypes \cup {PlainText}],
          gap_chars \in [1..(MaxSlots - 1) -> GapChars] :
          \E def_slot \in DefSlots(slot_types) :
             /\ text = SlotDocument(gap_chars)
             /\ entities = SlotEntities(text, slot_types, def_slot)
             /\ entities_it = [j \in 1..Len(OccupiedSlots(slot_types)) |-> j]
             /\ refers_to = [i \in 1..Len(entities) |->
                               IF i <= Len(entities_it) /\ entities[i].entity_type = "LAW_DYNAMIC_ABBR"
                               THEN Len(entities)
                               ELSE None]
    /\ entity_list = entities_it
    /\ attrs = [i \in 1..Len(entities) |-> <<>>]
    /\ stages_run = <<>>
    /\ raised = FALSE
    /\ ExtractIdle
    /\ OverlapIdle
    /\ TokenizerIdle
    /\ SearchIdle
    /\ BatchIdle
    /\ LimiterIdle

SpecResolveRefs == InitResolveRefs /\ [][NextResolve]_vars

(***************************************************************************)
(* The tokenizers under check: titles and configurations.                  *)
(***************************************************************************)

MaxTitleLen == 4

\* Titles: "p" and "px" are promulgators, "x" is any other character.
TitleChars == {"p", "x", "(", ")", "<", ">", ",", " ", "about", "U+FF08"}

Titles == SeqsUpTo(TitleChars, MaxTitleLen)

Promulgators == {<<"p">>, <<"p", "x">>}

LawTitleTokenizers ==
    {[kind |-> "law_title", prefixes |-> Promulgators, strict |-> st,
      first_only_prefixes |-> po[1], last_only_prefixes |-> po[2],
      title_suffixes |-> {<<"(", "x">>}, nested_title_strict |-> {}] :
        st \in BOOLEAN,
        po \in {<<{}, {}>>, <<{<<"p">>}, {}>>, <<{}, {<<"p">>}>>}}

NestedLawTitleTokenizers ==
    {[kind |-> "nested", prefixes |-> Promulgators, strict |-> st,
      first_only_prefixes |-> {}, last_only_prefixes |-> {},
      title_suffixes |-> {<<"(", "x">>}, nested_title_strict |-> {<<"<">>, <<"p">>}] :
        st \in BOOLEAN}

NoOpTokenizers == {[kind |-> "no_op"]}

InitTokenize ==
    /\ text \in Titles
    /\ raised = FALSE
    /\ ExtractIdle
    /\ OverlapIdle
    /\ ResolverIdle
    /\ TokenizerIdle
    /\ SearchIdle
    /\ BatchIdle
    /\ LimiterIdle

\* LawTitleTokenizer(...).tokenize(text)
TokenizeLawTitle ==
    /\ tokenizer = NoTokenizer
    /\ \E cfg \in LawTitleTokenizers :
        /\ tokenizer' = cfg
        /\ token_span' = LawTitleTokenize(cfg, text)
        /\ raised' = ~ValidInput(text)
    /\ UNCHANGED <<limiterVars, searchVars, batchVars, text, extractVars, overlapVars, resolverVars>>

\* NestedLawTitleTokenizer(...).tokenize(text)
TokenizeNestedLawTitle ==
    /\ tokenizer = NoTokenizer
    /\ \E cfg \in NestedLawTitleTokenizers :
        /\ tokenizer' = cfg
        /\ token_span' = LawTitleTokenize(cfg, text)
        /\ raised' = ~ValidInput(text)
    /\ UNCHANGED <<limiterVars, searchVars, batchVars, text, extractVars, overlapVars, resolverVars>>

\* NoOpTokenizer().tokenize(text)
TokenizeNoOp ==
    /\ tokenizer = NoTokenizer
    /\ \E cfg \in NoOpTokenizers :
        /\ tokenizer' = cfg
        /\ token_span' = NoOpTokenize(text)
        /\ raised' = ~ValidInput(text)
    /\ UNCHANGED <<limiterVars, searchVars, batchVars, text, extractVars, overlapVars, resolverVars>>

NextTokenize == TokenizeLawTitle \/ TokenizeNestedLawTitle \/ TokenizeNoOp

SpecTokenize == InitTokenize /\ [][NextTokenize]_vars

(***************************************************************************)
(* The title search under check: tables, entities and metadata.            *)
(***************************************************************************)

MaxDocs == 2

\* A Legislation document is titled "pc" (promulgator "p", core term "c"),
\* a document of another type "c"; the version of a document follows its
\* release date.
DocTypes == {<<"Legislation">>, <<"Practice guidelines", "Legislation">>}
Scopes == {COUNTRY_SCOPE, <<"province">>}
ReleaseDates == {1, 2}

VersionOf(release_date) == <<"v", release_date>>

DocOf(doc_id, doc_type, scope, release_date) ==
    DocMeta(doc_id, doc_type,
            IF doc_type = <<"Legislation">> THEN <<"p", "c">> ELSE <<"c">>,
            <<"c">>, 1, release_date, VersionOf(release_date), <<<<"p">>>>,
            <<"effective">>, scope, 0)

DocIds == [i \in 1..3 |-> <<"d", i>>]

QueryAttributes ==
    {[k \in ks |-> CASE k = "DATE" -> {<<"y", "m", 1>>}
                     [] k = "ISSUE_NO" -> {VersionOf(2)}
                     [] k = "PROMULGATOR" -> {<<"p">>}] :
        ks \in SUBSET {"DATE", "ISSUE_NO", "PROMULGATOR"}}

QueryEntities == {EntityDTO(t, a) : t \in {<<"c">>, <<"p", "c">>}, a \in QueryAttributes}

QueryMetadata ==
    {[doc_id |-> DocIds[1], doc_type |-> <<"Legislation">>, release_date |-> 2],
     [doc_id |-> <<"d", 0>>, doc_type |-> <<"Case">>, release_date |-> 1]}

InitSearch ==
    /\ \E k \in 0..MaxDocs :
        \E f \in [1..k -> DocTypes \X Scopes \X ReleaseDates] :
            doc_table = {DocOf(DocIds[i], f[i][1], f[i][2], f[i][3]) : i \in 1..k}
    /\ query_entity \in QueryEntities
    /\ query_metadata \in QueryMetadata
    /\ allow_fuzzy_search = FALSE
    /\ search_stages = <<>>
    /\ inverted_index = EmptyIndex
    /\ matched_doc_ids = {}
    /\ doc_meta_list = <<>>
    /\ best_result = NoResult
    /\ text = <<>>
    /\ raised = FALSE
    /\ ExtractIdle
    /\ OverlapIdle
    /\ ResolverIdle
    /\ TokenizerIdle
    /\ BatchIdle
    /\ LimiterIdle

\* _search, steps 1 to 4: query the table and build the index
BuildIndexStep ==
    /\ search_stages = <<>>
    /\ inverted_index' = BuildMultiDimInvertedIndex(
           QueryDocumentsByCoreTerm(doc_table, ExtractCoreTermFromEntity(query_entity),
                                    query_metadata),
           ExtractTokenSpanFromEntity(query_entity).core.text,
           IsNestedEntity(query_entity))
    /\ search_stages' = <<"index">>
    /\ UNCHANGED <<allow_fuzzy_search, doc_table, query_entity, query_metadata, matched_doc_ids,
                   doc_meta_list, best_result>>
    /\ UNCHANGED <<limiterVars, text, raised, extractVars, overlapVars, resolverVars,
                   tokenizerVars, batchVars>>

\* _perform_multi_dimensional_search, step 1
SearchByPrefixesStep ==
    /\ search_stages = <<"index">>
    /\ matched_doc_ids' = SearchByPrefixes(ExtractTokenSpanFromEntity(query_entity),
                                           query_entity.attrs, inverted_index)
    /\ search_stages' = Append(search_stages, "prefixes")
    /\ UNCHANGED <<allow_fuzzy_search, doc_table, query_entity, query_metadata, inverted_index,
                   doc_meta_list, best_result>>
    /\ UNCHANGED <<limiterVars, text, raised, extractVars, overlapVars, resolverVars,
                   tokenizerVars, batchVars>>

\* _perform_multi_dimensional_search, step 2
FilterBySuffixesStep ==
    /\ search_stages = <<"index", "prefixes">>
    /\ matched_doc_ids' = FilterBySuffixes(matched_doc_ids,
                              ExtractTokenSpanFromEntity(query_entity), inverted_index,
                              allow_fuzzy_search)
    /\ search_stages' = Append(search_stages, "suffixes")
    /\ UNCHANGED <<allow_fuzzy_search, doc_table, query_entity, query_metadata, inverted_index,
                   doc_meta_list, best_result>>
    /\ UNCHANGED <<limiterVars, text, raised, extractVars, overlapVars, resolverVars,
                   tokenizerVars, batchVars>>

\* _perform_multi_dimensional_search, step 3
FilterByAttributesStep ==
    /\ search_stages = <<"index", "prefixes", "suffixes">>
    /\ matched_doc_ids' = FilterByAttributes(matched_doc_ids, query_entity.attrs,
                                             inverted_index, allow_fuzzy_search)
    /\ search_stages' = Append(search_stages, "attributes")
    /\ UNCHANGED <<allow_fuzzy_search, doc_table, query_entity, query_metadata, inverted_index,
                   doc_meta_list, best_result>>
    /\ UNCHANGED <<limiterVars, text, raised, extractVars, overlapVars, resolverVars,
                   tokenizerVars, batchVars>>

\* _search, the return: inverted_index.get_documents(search_results)
GetDocumentsStep ==
    /\ search_stages = <<"index", "prefixes", "suffixes", "attributes">>
    /\ doc_meta_list' \in GetDocuments(inverted_index, matched_doc_ids)
    /\ search_stages' = Append(search_stages, "documents")
    /\ UNCHANGED <<allow_fuzzy_search, doc_table, query_entity, query_metadata, inverted_index,
                   matched_doc_ids, best_result>>
    /\ UNCHANGED <<limiterVars, text, raised, extractVars, overlapVars, resolverVars,
                   tokenizerVars, batchVars>>

\* search_best, after _search
SearchBestStep ==
    /\ search_stages = <<"index", "prefixes", "suffixes", "attributes", "documents">>
    /\ best_result' = SearchBest(doc_meta_list, query_metadata)
    /\ search_stages' = Append(search_stages, "best")
    /\ UNCHANGED <<allow_fuzzy_search, doc_table, query_entity, query_metadata, inverted_index,
                   matched_doc_ids, doc_meta_list>>
    /\ UNCHANGED <<limiterVars, text, raised, extractVars, overlapVars, resolverVars,
                   tokenizerVars, batchVars>>

NextSearch ==
    \/ BuildIndexStep
    \/ SearchByPrefixesStep
    \/ FilterBySuffixesStep
    \/ FilterByAttributesStep
    \/ GetDocumentsStep
    \/ SearchBestStep

SpecSearch == InitSearch /\ [][NextSearch]_vars

(***************************************************************************)
(* The staged search under check with allow_fuzzy_search as an argument of *)
(* _perform_multi_dimensional_search, on tables of Legislation documents   *)
(* whose titles have a promulgator, a suffix, the prefix "about" or a      *)
(* nested title.                                                           *)
(***************************************************************************)

MaxStageDocs == 2

\* Titles with the core term "c" and the promulgators of their documents:
\* "q" is a promulgator the promulgator mapping does not know.
StageTitles ==
    {<< <<"c">>, <<"p">> >>, << <<"p", "c">>, <<"p">> >>,
     << <<"c", "(", "x", ")">>, <<"p">> >>, << <<"about", "c">>, <<"p">> >>,
     << <<"q", "<", "c", ">">>, <<"q">> >>}

\* The titles with their scopes: the titles with the prefix "about" or the
\* promulgator "q" in either scope, the others in the country scope
StageDocuments ==
    {d \in StageTitles \X Scopes :
        d[2] = COUNTRY_SCOPE \/ d[1][1][1] \in {"about", "q"}}

StageDocOf(doc_id, titled, scope) ==
    DocMeta(doc_id, <<"Legislation">>, titled[1], <<"c">>, 1, 1, VersionOf(1),
            <<titled[2]>>, <<"effective">>, scope, 0)

StageAttributes ==
    {[k \in ks |-> IF k = "DATE" THEN {date} ELSE {<<"p">>}] :
        ks \in SUBSET {"DATE", "PROMULGATOR"}, date \in {<<"y">>, <<"y", "m", 2>>}}

StageEntities ==
    {EntityDTO(t, a) : t \in {<<"c">>, <<"p", "c">>, <<"c", "(", "x", ")">>},
                       a \in StageAttributes}

InitStages ==
    /\ \E k \in 0..MaxStageDocs :
        \E f \in [1..k -> StageDocuments] :
            doc_table = {StageDocOf(DocIds[i], f[i][1], f[i][2]) : i \in 1..k}
    /\ query_entity \in StageEntities
    /\ query_metadata = [doc_id |-> <<"d", 0>>, doc_type |-> <<"Legislation">>,
                         release_date |-> 2]
    /\ allow_fuzzy_search \in BOOLEAN
    /\ search_stages = <<>>
    /\ inverted_index = EmptyIndex
    /\ matched_doc_ids = {}
    /\ doc_meta_list = <<>>
    /\ best_result = NoResult
    /\ text = <<>>
    /\ raised = FALSE
    /\ ExtractIdle
    /\ OverlapIdle
    /\ ResolverIdle
    /\ TokenizerIdle
    /\ BatchIdle
    /\ LimiterIdle

SpecStages == InitStages /\ [][NextSearch]_vars

(***************************************************************************)
(* The batch search under check.                                           *)
(***************************************************************************)

MaxBatch == 3
MaxBatchWorkers == 2

InitBatch ==
    /\ \E n \in 0..MaxBatch : batch_entities \in [1..n -> {"ok", "raise"}]
    /\ max_workers \in 1..MaxBatchWorkers
    /\ futures = <<>>
    /\ search_results = <<>>
    /\ batch_state = "idle"
    /\ text = <<>>
    /\ raised = FALSE
    /\ ExtractIdle
    /\ OverlapIdle
    /\ ResolverIdle
    /\ TokenizerIdle
    /\ SearchIdle
    /\ LimiterIdle

\* batch_search_best up to the submission of the searches; the constructor of
\* ThreadPoolExecutor raises ValueError when max_workers <= 0
CallBatchSearchBest ==
    /\ batch_state = "idle"
    /\ IF PoolSize(max_workers, batch_entities) <= 0
       THEN /\ batch_state' = "raised"
            /\ raised' = TRUE
            /\ UNCHANGED <<futures, search_results>>
       ELSE /\ futures' = [i \in DOMAIN batch_entities |-> "pending"]
            /\ search_results' = [i \in DOMAIN batch_entities |-> NotSearched]
            /\ batch_state' = "collecting"
            /\ UNCHANGED raised
    /\ UNCHANGED <<batch_entities, max_workers>>
    /\ UNCHANGED <<limiterVars, text, extractVars, overlapVars, resolverVars, tokenizerVars,
                   searchVars>>

\* A free worker takes the next search from the queue; the executor is open
\* or shutting down with wait=True, which lets the queued searches run
WorkerStart ==
    /\ batch_state \in {"collecting", "shutdown"}
    /\ FuturesIn(futures, {"pending"}) # {}
    /\ Cardinality(FuturesIn(futures, {"running"}))
           < PoolSize(max_workers, batch_entities)
    /\ futures' = [futures EXCEPT ![NextQueued(futures)] = "running"]
    /\ UNCHANGED <<batch_entities, max_workers, search_results, batch_state>>
    /\ UNCHANGED <<limiterVars, text, raised, extractVars, overlapVars, resolverVars,
                   tokenizerVars, searchVars>>

\* A search ends: its future holds a result or an exception
WorkerFinish ==
    /\ \E i \in FuturesIn(futures, {"running"}) :
        futures' = [futures EXCEPT ![i] =
                       IF batch_entities[i] = "ok" THEN "finished" ELSE "failed"]
    /\ UNCHANGED <<batch_entities, max_workers, search_results, batch_state>>
    /\ UNCHANGED <<limiterVars, text, raised, extractVars, overlapVars, resolverVars,
                   tokenizerVars, searchVars>>

\* The loop over as_completed takes a future that ended with a result
CollectResult ==
    /\ batch_state = "collecting"
    /\ \E i \in FuturesIn(futures, {"finished"}) :
        /\ search_results' = [search_results EXCEPT ![i] = ResultFor(i)]
        /\ futures' = [futures EXCEPT ![i] = "collected"]
    /\ UNCHANGED <<batch_entities, max_workers, batch_state>>
    /\ UNCHANGED <<limiterVars, text, raised, extractVars, overlapVars, resolverVars,
                   tokenizerVars, searchVars>>

\* The loop over as_completed takes a future that ended with an exception:
\* it is raised again, and leaving the with block shuts the executor down
CollectException ==
    /\ batch_state = "collecting"
    /\ \E i \in FuturesIn(futures, {"failed"}) :
        futures' = [futures EXCEPT ![i] = "collected"]
    /\ batch_state' = "shutdown"
    /\ UNCHANGED <<batch_entities, max_workers, search_results>>
    /\ UNCHANGED <<limiterVars, text, raised, extractVars, overlapVars, resolverVars,
                   tokenizerVars, searchVars>>

\* shutdown(wait=True) returns once no search is queued or running, and the
\* exception leaves batch_search_best
ShutdownAndRaise ==
    /\ batch_state = "shutdown"
    /\ FuturesIn(futures, {"pending", "running"}) = {}
    /\ batch_state' = "raised"
    /\ raised' = TRUE
    /\ UNCHANGED <<batch_entities, max_workers, futures, search_results>>
    /\ UNCHANGED <<limiterVars, text, extractVars, overlapVars, resolverVars, tokenizerVars,
                   searchVars>>

\* Every future has been taken: return search_results
ReturnSearchResults ==
    /\ batch_state = "collecting"
    /\ FuturesIn(futures, {"collected"}) = DOMAIN futures
    /\ batch_state' = "returned"
    /\ UNCHANGED <<batch_entities, max_workers, futures, search_results>>
    /\ UNCHANGED <<limiterVars, text, raised, extractVars, overlapVars, resolverVars,
                   tokenizerVars, searchVars>>

NextBatch ==
    \/ CallBatchSearchBest
    \/ WorkerStart
    \/ WorkerFinish
    \/ CollectResult
    \/ CollectException
    \/ ShutdownAndRaise
    \/ ReturnSearchResults

SpecBatch == InitBatch /\ [][NextBatch]_vars

(***************************************************************************)
(* The rate limiter under check: a bucket, a clock, and acquire calls.     *)
(***************************************************************************)

MaxCapacity == 3
MaxRefillRate == 2
MaxRefillInterval == 1
MaxTicks == 4
MaxAcquires == 6

\* TokenBucketLimiter(capacity, refill_rate, refill_interval), constructed at tick 0
InitLimiter ==
    /\ capacity \in 1..MaxCapacity
    /\ refill_rate \in 1..MaxRefillRate
    /\ refill_interval \in 1..MaxRefillInterval
    /\ token_num = capacity
    /\ last_updated = 0
    /\ current_time = 0
    /\ acquire_log = <<>>
    /\ text = <<>>
    /\ raised = FALSE
    /\ ExtractIdle
    /\ OverlapIdle
    /\ ResolverIdle
    /\ TokenizerIdle
    /\ SearchIdle
    /\ BatchIdle

\* datetime.now() moves on
Tick ==
    /\ capacity # 0
    /\ current_time < MaxTicks
    /\ current_time' = current_time + 1
    /\ UNCHANGED <<capacity, refill_rate, refill_interval, token_num, last_updated, acquire_log>>
    /\ UNCHANGED <<text, raised, extractVars, overlapVars, resolverVars, tokenizerVars,
                   searchVars, batchVars>>

\* acquire(): the refill, then a token consumed if there is one
Acquire ==
    /\ capacity # 0
    /\ Len(acquire_log) < MaxAcquires
    /\ LET bucket == Refill([capacity |-> capacity, refill_rate |-> refill_rate,
                             refill_interval |-> refill_interval, token_num |-> token_num,
                             last_updated |-> last_updated], current_time)
       IN /\ last_updated' = bucket.last_updated
          /\ token_num' = IF bucket.token_num > 0 THEN bucket.token_num - 1 ELSE bucket.token_num
          /\ acquire_log' = Append(acquire_log,
                                [at |-> current_time, ok |-> bucket.token_num > 0,
                                 left |-> token_num'])
    /\ UNCHANGED <<capacity, refill_rate, refill_interval, current_time>>
    /\ UNCHANGED <<text, raised, extractVars, overlapVars, resolverVars, tokenizerVars,
                   searchVars, batchVars>>

NextLimiter == Tick \/ Acquire

SpecLimiter == InitLimiter /\ [][NextLimiter]_vars

(***************************************************************************)
(* Claims about resolve_entities, checked under SpecResolve.               *)
(***************************************************************************)

Elems(s) == {s[i] : i \in DOMAIN s}

Validated == Len(stages_run) >= 1
OverlapsResolved == Len(stages_run) >= 2
Associated == Len(stages_run) >= 3
Pruned == Len(stages_run) >= 4

AttributeTypes == {"DATE", "ISSUE_NO", "PROMULGATOR"}

HasSentenceEnding(t) == \E i \in 1..Len(t) : t[i] \in SENTENCE_ENDING

\* The text between two entities that do not overlap, whichever comes first.
TextBetween(a, b) ==
    IF a.end <= b.start THEN PySlice(text, a.end, b.start) ELSE PySlice(text, b.end, a.start)

\* C2: after association, every member of an entity's attrs is a DATE,
\* ISSUE_NO or PROMULGATOR such that the text between it and the entity holds
\* no sentence-ending character, whether it was attached by the forward or by
\* the backward match.
C2_NoAttributeAcrossSentenceEnding ==
    Associated =>
        \A e \in DOMAIN entities : \A k \in 1..Len(attrs[e]) :
            LET a == attrs[e][k] IN
            /\ entities[a].entity_type \in AttributeTypes
            /\ ~OverlapsWith(entities[a], entities[e])
            /\ ~HasSentenceEnding(TextBetween(entities[e], entities[a]))

\* A DATE follows a LAW_TITLE, the text between them starts with a single
\* left bracket (so the bracket gate of the forward match is open) and holds
\* a sentence ending; association has run and left the title without attrs.
C2_Witness ==
    /\ stages_run = SubSeq(Stages, 1, 3)
    /\ \E e \in Elems(entity_list), a \in Elems(entity_list) :
        /\ entities[e].entity_type = "LAW_TITLE"
        /\ entities[a].entity_type = "DATE"
        /\ entities[e].end < entities[a].start
        /\ StartswithSingleLeftBracket(text, entities[e].end, entities[a].start)
        /\ HasSentenceEnding(TextBetween(entities[e], entities[a]))
        /\ attrs[e] = <<>>

ReferringTypes == {"LAW_SELF", "THIS_LAW", "LAW_ARTICLE"}

\* The candidate definitions of entity i: the entities of the list, of a
\* type that i's type depends on, that end at or before the start of i.
PrecedingDefinitions(i) ==
    {d \in Elems(entity_list) :
        /\ d # i
        /\ entities[d].entity_type \in Elems(DependsOn(entities[i].entity_type))
        /\ entities[d].end <= entities[i].start}

NearestPrecedingDefinitions(i) ==
    {d \in PrecedingDefinitions(i) :
        \A d2 \in PrecedingDefinitions(i) : entities[d2].end <= entities[d].end}

\* C3: after association every LAW_SELF, THIS_LAW or LAW_ARTICLE entity of the
\* list refers to a nearest preceding definition (greatest end not after the
\* entity's start, a definition ending exactly at the start included) when
\* the text between them holds no sentence ending, and to nothing otherwise.
C3_RefersToNearestPrecedingDefinition ==
    stages_run = SubSeq(Stages, 1, 3) =>
        \A i \in Elems(entity_list) :
            entities[i].entity_type \in ReferringTypes =>
                IF \E d \in NearestPrecedingDefinitions(i) :
                        ~HasSentenceEnding(PySlice(text, entities[d].end, entities[i].start))
                THEN refers_to[i] \in NearestPrecedingDefinitions(i)
                ELSE refers_to[i] = None

IsPrefixOf(s, t) == Len(s) <= Len(t) /\ SubSeq(t, 1, Len(s)) = s

\* The candidate passes both structural checks.
ValidCandidate(i) ==
    /\ IsUnmarkedHyperlink(text, entities[i])
    /\ IsValidXmlFragment(text, entities[i])

RECURSIVE OverlapClosure(_)
OverlapClosure(S) ==
    LET more == {j \in 1..Len(segments) :
                    \E i \in S : OverlapsWith(segments[i], segments[j])}
    IN IF more \subseteq S THEN S ELSE OverlapClosure(S \cup more)

ClusterOf(i) == OverlapClosure({i})

SpanLength(seg) == seg.end - seg.start

\* i is sorted before j by resolve_overlaps' stable sort on start.
SortsBefore(i, j) ==
    \/ segments[i].start < segments[j].start
    \/ segments[i].start = segments[j].start /\ i < j

\* The longest input of a cluster, a tie going to the one sorted earliest.
LongestOf(cluster) ==
    CHOOSE i \in cluster : \A j \in cluster \ {i} :
        \/ SpanLength(segments[i]) > SpanLength(segments[j])
        \/ SpanLength(segments[i]) = SpanLength(segments[j]) /\ SortsBefore(i, j)

IsLongestCall(direct_only) ==
    /\ overlap_call.strategy = "longest"
    /\ overlap_call.direct_only = direct_only

SortedByStart(list) ==
    \A a, b \in 1..Len(list) : a < b => list[a].start <= list[b].start

PairwiseDisjoint(list) ==
    \A a, b \in 1..Len(list) : a # b => ~OverlapsWith(list[a], list[b])

OnlyInputs(list) ==
    \A a \in 1..Len(list) : \E i \in 1..Len(segments) : segments[i] = list[a]

\* C1: "longest" with direct_only = false returns a list sorted by start,
\* pairwise non-overlapping, made of input spans only, holding exactly one
\* span of each maximal cluster of transitively overlapping inputs: its
\* longest span, a tie going to the span sorted earliest.
C1_LongestKeepsOnePerCluster ==
    IsLongestCall(FALSE) =>
        /\ SortedByStart(resolved)
        /\ PairwiseDisjoint(resolved)
        /\ OnlyInputs(resolved)
        /\ Len(resolved) = Cardinality({ClusterOf(i) : i \in 1..Len(segments)})
        /\ {resolved[a].text : a \in 1..Len(resolved)}
            = {LongestOf(ClusterOf(i)) : i \in 1..Len(segments)}

(***************************************************************************)
(* Claims about the extractors, checked under SpecExtract.                 *)
(***************************************************************************)

\* Span a lies inside span b.
Inside(a, b) == b.start <= a.start /\ a.end <= b.end

IsLeafRun == extractor.kind \in {"paired", "keyword", "pattern"}

IsOutermostRun ==
    /\ extractor.kind = "paired"
    /\ extractor.strategy = "outermost"
    /\ Len(extractor.left) = 1
    /\ Len(extractor.right) = 1

\* C6: in outermost mode (one-character symbols, fallback on or off) no
\* emitted span lies inside another emitted span: only the widest enclosing
\* pair is kept.
C6_OutermostKeepsOnlyWidest ==
    IsOutermostRun =>
        \A i, j \in 1..Len(spans) : i # j => ~Inside(spans[i], spans[j])

\* C7: every span a leaf extractor emits satisfies
\* 0 <= start <= end <= len(text) and span.text = text[start:end].
C7_LeafSpanWithinText ==
    IsLeafRun =>
        \A i \in 1..Len(spans) :
            /\ 0 <= spans[i].start
            /\ spans[i].start <= spans[i].end
            /\ spans[i].end <= Len(text)
            /\ spans[i].text = PySlice(text, spans[i].start, spans[i].end)

IsLongestMatchRun == extractor.kind = "keyword" /\ extractor.ignore_overlaps

AbcdKeywords ==
    {<<"a">>, <<"a", "b">>, <<"a", "b", "c">>, <<"a", "b", "c", "d">>}

C9_ChainedOffsetsInOriginalText ==
    extractor.kind = "chained" =>
        \A i \in 1..Len(spans) :
            spans[i].text = PySlice(text, spans[i].start, spans[i].end)

(***************************************************************************)
(* Claims about the tokenizers, checked under SpecTokenize.                *)
(***************************************************************************)

\* The core of a token span lies within, and is the slice of, the span's own
\* normalized text.
CoreWithinNormalizedText(span) ==
    /\ 0 <= span.core.start
    /\ span.core.start <= span.core.end
    /\ span.core.end <= Len(span.normalized_text)
    /\ span.core.text = PySlice(span.normalized_text, span.core.start, span.core.end)

\* The token span returned, and its outer and inner spans if it has them.
ProducedTokenSpans ==
    IF token_span = NoTokenSpan THEN {}
    ELSE {token_span} \cup ({token_span.outer, token_span.inner} \ {NoTokenSpan})

\* C10: every token span a tokenizer produces, the outer and inner spans of a
\* nested result included, has 0 <= core.start <= core.end <=
\* len(normalized_text) and core.text = normalized_text[core.start:core.end]
\* for its own normalized text.
C10_CoreIsSliceOfNormalizedText ==
    \A span \in ProducedTokenSpans : CoreWithinNormalizedText(span)

\* A LawTitleTokenizer has returned a token span.
IsLawTitleRun == tokenizer.kind = "law_title" /\ token_span # NoTokenSpan

\* g is empty, or runs from a bracket or comma to a bracket's end or a comma.
BracketsAndCommas(g) == g = <<>> \/ (g[1] \in {"(", ","} /\ g[Len(g)] \in {")", ","})

\* The prefixes are promulgator keywords of the text, the first at offset 0,
\* each separated from the next by bracket groups and commas only.
PrefixRun ==
    LET nt == token_span.normalized_text
        pre == token_span.prefixes
    IN /\ \A i \in 1..Len(pre) :
            /\ pre[i].text \in tokenizer.prefixes
            /\ pre[i].text = PySlice(nt, pre[i].start, pre[i].end)
       /\ pre # <<>> => pre[1].start = 0
       /\ \A i \in 1..(Len(pre) - 1) :
            /\ pre[i].end <= pre[i + 1].start
            /\ BracketsAndCommas(PySlice(nt, pre[i].end, pre[i + 1].start))

\* The suffixes are bracket groups of the text, each ending where the next
\* starts, the last at the end of the text.
SuffixRun ==
    LET nt == token_span.normalized_text
        suf == token_span.suffixes
    IN /\ \A i \in 1..Len(suf) :
            /\ suf[i].text = PySlice(nt, suf[i].start, suf[i].end)
            /\ suf[i].text[1] = "("
            /\ suf[i].text[Len(suf[i].text)] = ")"
       /\ suf # <<>> => suf[Len(suf)].end = Len(nt)
       /\ \A i \in 1..(Len(suf) - 1) : suf[i].end = suf[i + 1].start

\* The core is the text from the end of the prefix run (the last prefix and
\* the bracket groups and commas after it) to the start of the suffix run.
CoreBetweenPrefixesAndSuffixes ==
    LET nt == token_span.normalized_text
        pre == token_span.prefixes
        suf == token_span.suffixes
        core == token_span.core
        prefix_end == IF pre = <<>> THEN 0 ELSE pre[Len(pre)].end
        suffix_start == IF suf = <<>> THEN Len(nt) ELSE suf[1].start
    IN /\ prefix_end <= core.start
       /\ BracketsAndCommas(PySlice(nt, prefix_end, core.start))
       /\ core.end = suffix_start
       /\ core.text = PySlice(nt, core.start, core.end)

\* C11: LawTitleTokenizer decomposes a title into the run of promulgator
\* keywords contiguous from offset 0 (each followed by adjacent bracket groups
\* and commas), the run of bracket groups contiguous to the end of the text,
\* and the core, which is the text between the two runs.
C11_TitleIsPrefixesCoreSuffixes ==
    IsLawTitleRun => PrefixRun /\ SuffixRun /\ CoreBetweenPrefixesAndSuffixes

(***************************************************************************)
(* Claims about the title search.                                          *)
(***************************************************************************)

AttributesFiltered == Len(search_stages) >= 4

\* The document of the index with the given id
IndexedDocument(doc_id) == CHOOSE d \in inverted_index.documents : d.doc_id = doc_id

\* The document carries every text of one attribute dimension of the query
MatchesDimension(doc_meta, entity_type, values) ==
    CASE entity_type = "DATE" ->
            values \subseteq
                UnpackDate(doc_meta.release_date)
                \cup (IF doc_meta.effective_date # 0
                      THEN UnpackDate(doc_meta.effective_date) ELSE {})
      [] entity_type = "ISSUE_NO" -> values \subseteq {doc_meta.version}
      [] entity_type = "PROMULGATOR" ->
            {ConvertToFullname(v) : v \in values}
                \subseteq {ConvertToFullname(p) : p \in KeysOf(doc_meta.promulgators)}

\* C12: after the attribute step of the search, every document of the
\* running result matches all the attribute dimensions present in the query
\* (date, issue number, promulgator).
C12_AttributeStageIntersects ==
    AttributesFiltered =>
        \A id \in matched_doc_ids :
            \A k \in DOMAIN query_entity.attrs :
                MatchesDimension(IndexedDocument(id), k, query_entity.attrs[k])

BestReturned == Len(search_stages) >= 6

\* The candidates search_best ranks: the list _search returned without the
\* querying document
SurvivingCandidates == ExcludeCurrent(doc_meta_list, query_metadata)

\* a ranks strictly before b: Legislation before the other types, then
\* country-wide scope before the other scopes, then the later release date
RanksBefore(a, b) ==
    LET la == a.doc_type = <<"Legislation">>
        lb == b.doc_type = <<"Legislation">>
        ca == a.effective_scope = COUNTRY_SCOPE
        cb == b.effective_scope = COUNTRY_SCOPE
    IN \/ la /\ ~lb
       \/ la = lb /\ ca /\ ~cb
       \/ la = lb /\ ca = cb /\ a.release_date > b.release_date

\* C13: the document search_best returns is first in the ranking Legislation
\* type, then country-wide scope, then most recent release date: no surviving
\* candidate ranks before it.
C13_BestIsFirstRanked ==
    (BestReturned /\ SurvivingCandidates # <<>>) =>
        \A i \in DOMAIN SurvivingCandidates :
            ~RanksBefore(SurvivingCandidates[i], best_result.doc_meta)

\* The positions of doc_meta_list holding another document than the
\* querying one
OtherDocuments ==
    {i \in DOMAIN doc_meta_list : doc_meta_list[i].doc_id # query_metadata.doc_id}

\* c hundredths is 1/n rounded to two decimals
IsRoundedReciprocal(c, n) == 2 * (n * c - 100) <= n /\ 2 * (100 - n * c) <= n

\* C14: with N the number of candidates left once the querying document is
\* excluded, search_best returns the confidence 1/N rounded, within [0, 1],
\* and a document when N >= 1, the confidence 0 and no document when N = 0;
\* the document returned is never the querying document.
C14_ConfidenceIsReciprocalOfCandidates ==
    BestReturned =>
        IF Cardinality(OtherDocuments) = 0
        THEN best_result.confidence_score = 0 /\ best_result.doc_meta = NoDocMeta
        ELSE /\ IsRoundedReciprocal(best_result.confidence_score,
                                    Cardinality(OtherDocuments))
             /\ best_result.confidence_score \in 0..100
             /\ \E i \in OtherDocuments : best_result.doc_meta = doc_meta_list[i]
             /\ best_result.doc_meta.doc_id # query_metadata.doc_id

\* The search found the querying document and another one, and the other
\* one is returned with confidence 1.
C14_Witness ==
    /\ BestReturned
    /\ Len(doc_meta_list) = 2
    /\ Cardinality(OtherDocuments) = 1
    /\ best_result.confidence_score = 100
    /\ best_result.doc_meta.doc_id # query_metadata.doc_id

(***************************************************************************)
(* Claims about the batch search.                                          *)
(***************************************************************************)

NoSearchRaises == \A i \in DOMAIN batch_entities : batch_entities[i] = "ok"

\* C15: when no search raises, batch_search_best does not raise for any list
\* of entities, the empty list included; it runs at most
\* min(max_workers, number of entities) searches at once, and the list it
\* returns has the length of the entities and holds at position i the result
\* for entity i, whatever the order the searches complete in.
C15_ResultsByEntityPosition ==
    NoSearchRaises =>
        /\ batch_state # "raised"
        /\ Cardinality(FuturesIn(futures, {"running"}))
               <= Min(max_workers, Len(batch_entities))
        /\ batch_state = "returned" =>
               /\ Len(search_results) = Len(batch_entities)
               /\ \A i \in DOMAIN batch_entities : search_results[i] = ResultFor(i)

\* C16: once batch_search_best has seen a search raise, it returns no list
\* and no search that had not started starts: the call ends by raising.
C16_NoSearchStartsAfterFailure ==
    [][batch_state = "shutdown" =>
           /\ batch_state' \in {"shutdown", "raised"}
           /\ \A i \in DOMAIN futures :
                  futures[i] = "pending" => futures'[i] = "pending"]_vars

(***************************************************************************)
(* Further claims about resolve_overlaps.                                  *)
(***************************************************************************)

OverlapsCalled == overlap_call # NoCall

\* C17: resolve_overlaps is idempotent: applied to its own output with the
\* same strategy and direct_only, it returns that output unchanged.
C17_ResolveOverlapsIdempotent ==
    OverlapsCalled =>
        ResolveOverlaps(resolved, overlap_call.strategy, overlap_call.direct_only)
            = resolved

\* A call that dropped a span and kept several.
C17_Witness ==
    /\ OverlapsCalled
    /\ Len(resolved) >= 2
    /\ Len(resolved) < Len(segments)
    /\ ResolveOverlaps(resolved, overlap_call.strategy, overlap_call.direct_only)
           = resolved

\* The output is in ascending order of start
ResolvedSorted ==
    \A i, j \in DOMAIN resolved : i < j => resolved[i].start <= resolved[j].start

\* No two spans of the output overlap
ResolvedDisjoint ==
    \A i, j \in DOMAIN resolved : i # j => ~OverlapsWith(resolved[i], resolved[j])

\* C18: with strategy longest and direct_only = true the output is sorted
\* and pairwise non-overlapping, and every input span missing from the
\* output overlaps at least one span of the output.
C18_DirectOnlyDropsOnlyDirectConflicts ==
    (OverlapsCalled /\ overlap_call.strategy = "longest" /\ overlap_call.direct_only) =>
        /\ ResolvedSorted
        /\ ResolvedDisjoint
        /\ \A i \in DOMAIN segments :
               (\A j \in DOMAIN resolved : resolved[j] # segments[i]) =>
                   \E j \in DOMAIN resolved : OverlapsWith(segments[i], resolved[j])

\* C19: with strategy earliest or earliest_longest and a non-empty input of
\* any integer positions, the output is sorted, pairwise non-overlapping and
\* contains the first span of the sorted input.
C19_EarliestKeepsFirstSpan ==
    (OverlapsCalled /\ overlap_call.strategy \in {"earliest", "earliest_longest"}
                    /\ segments # <<>>) =>
        /\ ResolvedSorted
        /\ ResolvedDisjoint
        /\ \E j \in DOMAIN resolved :
               resolved[j] = SortedByKey(segments, overlap_call.strategy)[1]

(***************************************************************************)
(* Claims about the innermost mode of PairedSymbolExtractor.               *)
(***************************************************************************)

IsInnermostRun ==
    /\ extractor.kind = "paired"
    /\ extractor.strategy = "innermost"
    /\ Len(extractor.left) = 1
    /\ Len(extractor.right) = 1

IsLeftAt(p) == text[p + 1] = extractor.left[1]
IsRightAt(p) == text[p + 1] = extractor.right[1]

\* The number of left symbols open before position p; a right symbol met at
\* depth 0 is stray and closes nothing
RECURSIVE DepthBefore(_)
DepthBefore(p) ==
    IF p = 0 THEN 0
    ELSE IF IsLeftAt(p - 1) THEN DepthBefore(p - 1) + 1
    ELSE IF IsRightAt(p - 1) /\ DepthBefore(p - 1) > 0 THEN DepthBefore(p - 1) - 1
    ELSE DepthBefore(p - 1)

\* The right symbol at p closes a pair
ClosesPairAt(p) == IsRightAt(p) /\ DepthBefore(p) > 0

\* The last position up to p at which no left symbol was open
LastEmptyBefore(p) == MaxOf({q \in 0..p : DepthBefore(q) = 0})

\* The maximum depth reached since then
MaxDepthSinceEmpty(p) == MaxOf({DepthBefore(q) : q \in LastEmptyBefore(p)..p})

\* The left symbol the right symbol at p closes
OpenerOf(p) ==
    MaxOf({q \in 0..(p - 1) : IsLeftAt(q) /\ DepthBefore(q) = DepthBefore(p) - 1})

\* The span of the pair closed at p, with or without its symbols
PairSpan(p) ==
    IF extractor.include_symbols
    THEN Segment(PySlice(text, OpenerOf(p), p + 1), OpenerOf(p), p + 1)
    ELSE Segment(PySlice(text, OpenerOf(p) + 1, p), OpenerOf(p) + 1, p)

\* The spans of the pairs that close at the maximum depth reached since the
\* stack was last empty, in the order they close, from position p on
RECURSIVE DeepestPairsFrom(_)
DeepestPairsFrom(p) ==
    IF p >= Len(text) THEN <<>>
    ELSE (IF ClosesPairAt(p) /\ DepthBefore(p) = MaxDepthSinceEmpty(p)
          THEN <<PairSpan(p)>> ELSE <<>>)
         \o DeepestPairsFrom(p + 1)

\* C20: in innermost mode a matched pair is emitted if and only if it closes
\* at the maximum depth reached since the stack was last empty (tracking
\* restarts once the chain has fully closed); a stray right symbol produces
\* no span.  So "((a))" yields the single span "a".
C20_InnermostEmitsDeepestPairs ==
    IsInnermostRun =>
        /\ spans = DeepestPairsFrom(0)
        /\ (text = <<"(", "(", "a", ")", ")">> /\ ~extractor.include_symbols)
               => spans = <<Segment(<<"a">>, 2, 3)>>

\* A stray right symbol, then a nested pair: only the inner pair is emitted.
C20_Witness ==
    /\ IsInnermostRun
    /\ text = <<")", "(", "(", ")", ")">>
    /\ ~extractor.include_symbols
    /\ spans = <<Segment(<<>>, 3, 3)>>


(***************************************************************************)
(* C21: an attribute is attached once, forward before backward.            *)
(***************************************************************************)

ListedOfTypes(types) == {i \in Elems(entity_list) : entities[i].entity_type \in types}

\* The entities whose attrs hold entity i
Holders(i) == {e \in 1..Len(entities) : \E j \in 1..Len(attrs[e]) : attrs[e][j] = i}

TimesAttached(i) ==
    Cardinality({p \in (1..Len(entities)) \X (1..MaxSlots) :
                    p[2] <= Len(attrs[p[1]]) /\ attrs[p[1]][p[2]] = i})

\* The listed titles ending nearest before entity i, and starting nearest after it
NearestTitleBefore(i) ==
    {e \in ListedOfTypes({"LAW_TITLE"}) :
        /\ entities[e].end <= entities[i].start
        /\ \A f \in ListedOfTypes({"LAW_TITLE"}) :
              entities[f].end <= entities[i].start => entities[f].end <= entities[e].end}

NearestTitleAfter(i) ==
    {e \in ListedOfTypes({"LAW_TITLE"}) :
        /\ entities[e].start >= entities[i].end
        /\ \A f \in ListedOfTypes({"LAW_TITLE"}) :
              entities[f].start >= entities[i].end => entities[f].start >= entities[e].start}

RECURSIVE DropLeadingSpaces(_)
DropLeadingSpaces(s) ==
    IF s # <<>> /\ Head(s) = " " THEN DropLeadingSpaces(Tail(s)) ELSE s

\* s begins, after its leading whitespace, with a left bracket, and holds no other
BeginsWithOneLeftBracket(s) ==
    /\ DropLeadingSpaces(s) # <<>>
    /\ Head(DropLeadingSpaces(s)) \in LEFT_BRACKETS
    /\ Cardinality({k \in 1..Len(s) : s[k] \in LEFT_BRACKETS}) = 1

ForwardMatches(i) ==
    {e \in NearestTitleBefore(i) :
        /\ ~HasSentenceEnding(TextBetween(entities[e], entities[i]))
        /\ BeginsWithOneLeftBracket(TextBetween(entities[e], entities[i]))}

BackwardMatches(i) ==
    {e \in NearestTitleAfter(i) : ~HasSentenceEnding(TextBetween(entities[i], entities[e]))}

HasDefinition == Len(entities) > Len(entities_it)
Definition == Len(entities)

DynamicAbbrRefs == ListedOfTypes({"LAW_DYNAMIC_ABBR"})

\* The title a reference to the definition must end at: the nearest listed
\* title before the definition when both gates hold between them, else none
TargetOfDefinition ==
    IF ForwardMatches(Definition) # {} THEN CHOOSE e \in ForwardMatches(Definition) : TRUE
    ELSE None

IsDynamicKeywordRun == extractor.kind = "dynamic_keyword"

DefinitionsRun == Elems(extractor.dynamic_abbr_defs)

\* The occurrences of the defined abbreviation texts that the keyword scan
\* reports: the leftmost longest matches, none overlapping
AbbrOccurrences ==
    {o \in Elems(KeywordExtract([kind |-> "keyword", ignore_overlaps |-> TRUE,
                                  keywords |-> DOMAIN KeywordLookup(extractor.dynamic_abbr_defs)],
                                 text)) :
        \E d \in DefinitionsRun : d.text = o.text}

DefinedAtOrBefore(o) ==
    {d \in DefinitionsRun : d.text = o.text /\ d.start <= o.start}

YieldedWithDefinition(o) ==
    \E i \in 1..Len(spans) :
        /\ spans[i].text = o.text
        /\ spans[i].start = o.start
        /\ spans[i].end = o.end
        /\ spans[i].refers_to \in DefinedAtOrBefore(o)

\* C23: an occurrence of a dynamically defined abbreviation text is yielded,
\* referring to a definition of that text that starts at or before it,
\* exactly when some definition of that text starts at or before it, also
\* when the text is defined more than once.
C23_RejectsExactlyOccurrencesBeforeDefinition ==
    IsDynamicKeywordRun =>
        \A o \in AbbrOccurrences : YieldedWithDefinition(o) <=> DefinedAtOrBefore(o) # {}


(***************************************************************************)
(* C24: associators run in dependency order.                               *)
(***************************************************************************)

\* The position of an entity type among the associator calls, 0 if it has none
CallPosition(calls, entity_type) ==
    IF \E k \in 1..Len(calls) : calls[k] = entity_type
    THEN CHOOSE k \in 1..Len(calls) : calls[k] = entity_type
    ELSE 0

\* C24: when association has run, the associator of every entity type was
\* called after the associators of all the types it depends on that were
\* called at all, whatever the order in which the types first appear.
C24_AssociatorsInDependencyOrder ==
    Associated =>
        LET calls == AssociatorCalls(entities, entity_list) IN
        \A k \in 1..Len(calls) :
            \A d \in Elems(DependsOn(calls[k])) :
                CallPosition(calls, d) # 0 => CallPosition(calls, d) < k


(***************************************************************************)
(* C29: the output of resolve_entities is closed under refers_to.          *)
(***************************************************************************)

\* The entity reached from i by following refers_to n times, None once the
\* chain has ended
RECURSIVE FollowRefersTo(_, _)
FollowRefersTo(i, n) ==
    IF i = None \/ n = 0 THEN i ELSE FollowRefersTo(refers_to[i], n - 1)

\* C29: when resolve_entities has returned, the entity every returned
\* entity refers to is itself returned, and following refers_to from a
\* returned entity ends after at most two steps.
C29_OutputClosedUnderReferences ==
    Pruned =>
        \A i \in Elems(entity_list) :
            /\ refers_to[i] # None => refers_to[i] \in Elems(entity_list)
            /\ FollowRefersTo(i, 3) = None


(***************************************************************************)
(* C30: prefixes, core and suffixes of a token span are ordered.           *)
(***************************************************************************)

PrefixesCoreSuffixesOrdered(span) ==
    /\ \A i \in 1..Len(span.prefixes) : span.prefixes[i].end <= span.core.start
    /\ \A i \in 1..Len(span.suffixes) : span.suffixes[i].start >= span.core.end

\* C30: in every token span LawTitleTokenizer or NestedLawTitleTokenizer
\* returns, the outer and inner spans of a nested result included, every
\* prefix ends at or before core.start and every suffix starts at or after
\* core.end, also when the core is the whole text.
C30_PrefixesCoreSuffixesOrdered ==
    tokenizer.kind \in {"law_title", "nested"} =>
        \A span \in ProducedTokenSpans : PrefixesCoreSuffixesOrdered(span)


(***************************************************************************)
(* C28: the bucket refills by whole intervals however acquire is timed.    *)
(***************************************************************************)

LimiterConstructed == capacity # 0

\* The calls of the log after call e and up to call f that returned True
SucceededBetween(e, f) == Cardinality({j \in (e + 1)..f : acquire_log[j].ok})

\* The whole intervals between two ticks
WholeIntervals(from, to) == (to - from) \div (refill_interval * TicksPerSecond)

\* C28: the bucket starts full and token_num stays within 0..capacity; and
\* when acquire is refused, at least min(capacity, k * refill_rate) calls
\* have succeeded since any call that left the bucket empty k whole
\* intervals before, whatever calls were made in between.
C28_RefillsByWholeIntervals ==
    LimiterConstructed =>
        /\ acquire_log = <<>> /\ current_time = 0 => token_num = capacity
        /\ token_num \in 0..capacity
        /\ \A e, f \in 1..Len(acquire_log) :
              (e < f /\ acquire_log[e].left = 0 /\ ~acquire_log[f].ok) =>
                  SucceededBetween(e, f) >=
                      Min(capacity, WholeIntervals(acquire_log[e].at, acquire_log[f].at)
                                    * refill_rate)


(***************************************************************************)
(* C25: the suffix and attribute stages narrow, and with the fuzzy         *)
(* fallback never empty, the running result.                               *)
(***************************************************************************)

\* A step of the suffix stage or of the attribute stage
IsFilterStage ==
    /\ search_stages \in {<<"index", "prefixes">>, <<"index", "prefixes", "suffixes">>}
    /\ search_stages' # search_stages

\* C25: the suffix stage and the attribute stage leave a subset of the
\* running result, so the final result is a subset of the prefix stage's;
\* they change the running result only to a non-empty set or with
\* allow_fuzzy_search disabled; with it enabled a non-empty running result
\* stays non-empty.
C25_StagesNarrowOnlyToNonEmptyOrWithoutFuzzy ==
    [][IsFilterStage =>
          /\ matched_doc_ids' \subseteq matched_doc_ids
          /\ matched_doc_ids' # matched_doc_ids =>
                (matched_doc_ids' # {} \/ ~allow_fuzzy_search)
          /\ (allow_fuzzy_search /\ matched_doc_ids # {}) => matched_doc_ids' # {}]_vars

\* With the fallback enabled the suffix stage has kept a running result of
\* which no document carries the suffix of the query.
C25_Witness ==
    /\ allow_fuzzy_search
    /\ search_stages = <<"index", "prefixes", "suffixes">>
    /\ matched_doc_ids # {}
    /\ ExtractTokenSpanFromEntity(query_entity).suffixes # <<>>
    /\ FilterBySuffixes(matched_doc_ids, ExtractTokenSpanFromEntity(query_entity),
                        inverted_index, FALSE) = {}


(***************************************************************************)
(* C26: the fallback of the prefix stage to the country scope.             *)
(***************************************************************************)

PrefixStageDone == search_stages = <<"index", "prefixes">>

\* The ids an index of the inverted index holds, under any key
IndexedInto(index_name) == {e[3] : e \in {x \in inverted_index.entries : x[1] = index_name}}

CountryScopeIds == IndexGet(inverted_index.entries, "scope_index", COUNTRY_SCOPE)

AboutPrefixedIds == IndexGet(inverted_index.entries, "prefix_index", ABOUT_CHINESE)

\* The query has no prefix and its empty-prefix, common-prefix and
\* promulgator sets are all empty
FallsBackToCountryScope ==
    /\ ExtractTokenSpanFromEntity(query_entity).prefixes = <<>>
    /\ SearchWithoutPrefixes(ExtractTokenSpanFromEntity(query_entity), query_entity.attrs,
                             inverted_index) = {}

\* C26: when the query has no prefix and the union of its empty-prefix,
\* common-prefix and promulgator sets is empty, the prefix stage returns the
\* country-scope documents that are in the nested-inner-empty index or carry
\* the prefix "about"; so a country-scope document indexed into the
\* nested-inner-empty index is returned.
C26_FallbackReturnsCountryScopeNestedOrAbout ==
    (PrefixStageDone /\ FallsBackToCountryScope) =>
        matched_doc_ids =
            CountryScopeIds \cap (IndexedInto("inner_empty_prefix_index") \cup AboutPrefixedIds)


(***************************************************************************)
(* C27: the prefix stage without a prefix against a direct lookup.         *)
(***************************************************************************)

\* The prefixes a direct lookup could be given: every key of the prefix
\* index, the promulgators of the query, the common prefixes and "about"
CandidatePrefixes ==
    {e[2] : e \in {x \in inverted_index.entries : x[1] = "prefix_index"}}
    \cup AttributesGet(query_entity.attrs, "PROMULGATOR")
    \cup COMMON_PREFIXES \cup {ABOUT_CHINESE}

\* index.search_by_index("prefix_index", prefixes), step 1 of the prefix stage
DirectPrefixLookup(prefixes) ==
    SearchByIndex(inverted_index.entries, "prefix_index", prefixes, FALSE)

\* C27: for every index, the prefix stage of a query without a prefix
\* returns no more documents than a direct lookup in the prefix index on a
\* non-empty prefix set standing for the query; the set is left open, so the
\* statement is taken with the most favourable one.
C27_FallbackNoLargerThanDirectLookup ==
    (PrefixStageDone /\ ExtractTokenSpanFromEntity(query_entity).prefixes = <<>>) =>
        \E prefixes \in (SUBSET CandidatePrefixes) \ {{}} :
            Cardinality(matched_doc_ids) <= Cardinality(DirectPrefixLookup(prefixes))

====
